---- MODULE Spec2Model ----
(***************************************************************************)
(* Credential pool manager of CLIProxyAPIPlus (package kiro): rate         *)
(* limiter, health scorer, file-backed token repository and the background *)
(* refresher with its RefreshManager.  Each component has its own          *)
(* specification over the shared clock `now`.                              *)
(***************************************************************************)
EXTENDS Integers, Sequences, FiniteSets, TLC

----------------------------------------------------------------------------
(* Bounds of the model.  Time is counted in ticks; the zero time.Time is 0 *)
(* and the clock starts at 1.                                              *)
MaxNow == 5
MaxFails == 3

VARIABLES now,
          rlStates, rlMarked, rlLastOp,
          scMetrics, scHist, scLastSel,
          fsDir, fsData, repoBaseDir, upd, lastUpd,
          rm, br,
          rd,
          cooldowns, reasons, cdDur, cdLastOp,
          fingerprints, fpFirst, fpLastOp, fpCallers,
          found,
          rmLastOp,
          held,
          calc,
          sw

rlVars == <<rlStates, rlMarked, rlLastOp>>
scVars == <<scMetrics, scHist, scLastSel>>
fsVars == <<fsDir, fsData>>
repoVars == <<fsDir, fsData, repoBaseDir, upd, lastUpd>>
refVars == <<rm, br>>
cdVars == <<cooldowns, reasons, cdDur, cdLastOp>>
fpVars == <<fingerprints, fpFirst, fpLastOp, fpCallers>>
auxVars == <<rd, cdVars, fpVars, found, rmLastOp, held, calc, sw>>
vars == <<now, rlVars, scVars, repoVars, refVars, auxVars>>

ZeroTime == 0

Min(a, b) == IF a < b THEN a ELSE b
Max(a, b) == IF a > b THEN a ELSE b

RECURSIVE Pow(_, _)
Pow(b, e) == IF e <= 0 THEN 1 ELSE b * Pow(b, e - 1)

(* The clock advances by itself; no operation is needed for it. *)
Tick ==
    /\ now < MaxNow
    /\ now' = now + 1
    /\ UNCHANGED <<auxVars, refVars, rlVars, scVars, repoVars>>

----------------------------------------------------------------------------
(* Rate limiter (spec section 4.1).                                        *)

RLKeys == {"tok1", "tok2"}

(* Configuration of the limiter in ticks (RateLimiterConfig). *)
BackoffBase == 2
BackoffMultiplier == 2
BackoffMax == 5
JitterPercent == 30

(* Error texts are sequences of characters. *)
TextSuspended == <<"S", "u", "s", "p", "e", "n", "d", "e", "d">>
TextBanned == <<"y", "o", "u", " ", "a", "r", "e", " ", "B", "A", "N", "N", "E", "D">>
TextTimeout == <<"t", "i", "m", "e", "o", "u", "t">>
TextBadRequest == <<"b", "a", "d", " ", "r", "e", "q">>
(* The messages of TestCheckAndMarkSuspended_Suspended and _NotSuspended. *)
TextAccountSuspended ==
    <<"A", "c", "c", "o", "u", "n", "t", " ", "h", "a", "s", " ", "b", "e",
      "e", "n", " ", "s", "u", "s", "p", "e", "n", "d", "e", "d">>
TextYouAreBanned ==
    <<"Y", "o", "u", " ", "a", "r", "e", " ", "b", "a", "n", "n", "e", "d",
      " ", "f", "r", "o", "m", " ", "t", "h", "i", "s", " ", "s", "e", "r",
      "v", "i", "c", "e">>
TextAccountDisabled ==
    <<"A", "c", "c", "o", "u", "n", "t", " ", "d", "i", "s", "a", "b", "l",
      "e", "d">>
TextAccessDenied ==
    <<"A", "c", "c", "e", "s", "s", " ", "d", "e", "n", "i", "e", "d", " ",
      "p", "e", "r", "m", "a", "n", "e", "n", "t", "l", "y">>
TextRateLimit ==
    <<"R", "a", "t", "e", " ", "l", "i", "m", "i", "t", " ", "e", "x", "c",
      "e", "e", "d", "e", "d">>
TextTooMany ==
    <<"T", "o", "o", " ", "m", "a", "n", "y", " ", "r", "e", "q", "u", "e",
      "s", "t", "s">>
TextQuota ==
    <<"Q", "u", "o", "t", "a", " ", "e", "x", "c", "e", "e", "d", "e", "d",
      " ", "f", "o", "r", " ", "t", "o", "d", "a", "y">>
TextConnTimeout ==
    <<"c", "o", "n", "n", "e", "c", "t", "i", "o", "n", " ", "t", "i", "m",
      "e", "o", "u", "t">>
TextInternal ==
    <<"i", "n", "t", "e", "r", "n", "a", "l", " ", "s", "e", "r", "v", "e",
      "r", " ", "e", "r", "r", "o", "r">>
TextBadReq ==
    <<"b", "a", "d", " ", "r", "e", "q", "u", "e", "s", "t">>
TextRequestDenied ==
    <<"r", "e", "q", "u", "e", "s", "t", " ", "d", "e", "n", "i", "e", "d">>
TextInvalidToken ==
    <<"i", "n", "v", "a", "l", "i", "d", " ", "t", "o", "k", "e", "n", " ",
      "f", "o", "r", "m", "a", "t">>
ErrorTexts ==
    {TextSuspended, TextBanned, TextTimeout, TextBadRequest,
     TextAccountSuspended, TextYouAreBanned, TextAccountDisabled, TextAccessDenied,
     TextRateLimit, TextTooMany, TextQuota,
     TextConnTimeout, TextInternal, TextBadReq, TextInvalidToken, TextRequestDenied}

Uppers == <<"A", "B", "C", "D", "E", "F", "G", "H", "I", "J", "K", "L", "M",
           "N", "O", "P", "Q", "R", "S", "T", "U", "V", "W", "X", "Y", "Z">>
Lowers == <<"a", "b", "c", "d", "e", "f", "g", "h", "i", "j", "k", "l", "m",
           "n", "o", "p", "q", "r", "s", "t", "u", "v", "w", "x", "y", "z">>
UpperToLower ==
    [c \in {Uppers[i] : i \in 1..Len(Uppers)} |->
        Lowers[CHOOSE i \in 1..Len(Uppers) : Uppers[i] = c]]

ToLower(s) ==
    [i \in 1..Len(s) |-> IF s[i] \in DOMAIN UpperToLower THEN UpperToLower[s[i]] ELSE s[i]]

Contains(s, sub) ==
    \E i \in 0..(Len(s) - Len(sub)) : SubSeq(s, i + 1, i + Len(sub)) = sub

(* The phrases of spec 4.1 and of the contract, as they are written there. *)
SuspendPhrases ==
    { <<"b", "a", "n">>,
      <<"s", "u", "s", "p", "e", "n", "d">>,
      <<"d", "i", "s", "a", "b", "l", "e">>,
      <<"d", "e", "n", "y">>,
      <<"r", "a", "t", "e", "-", "l", "i", "m", "i", "t">>,
      <<"t", "o", "o", "-", "m", "a", "n", "y", "-", "r", "e", "q", "u", "e", "s", "t", "s">>,
      <<"q", "u", "o", "t", "a", "-", "e", "x", "c", "e", "e", "d", "e", "d">> }

ContainsPhrase(text) ==
    \E p \in SuspendPhrases : Contains(ToLower(text), p)

(* The messages TestCheckAndMarkSuspended_Suspended expects true for and   *)
(* those TestCheckAndMarkSuspended_NotSuspended expects false for.         *)
TestedSuspended ==
    {TextAccountSuspended, TextYouAreBanned, TextAccountDisabled, TextAccessDenied,
     TextRateLimit, TextTooMany, TextQuota}
TestedNormal == {TextConnTimeout, TextInternal, TextBadReq, TextInvalidToken}

(* What the match of a text against the fixed set of phrases can be.  The  *)
(* set itself is not known beyond spec 4.1 and the two tests: a text that  *)
(* contains a phrase of the spec, or a message the test expects true for,  *)
(* matches; a text that is part of a message the test expects false for    *)
(* holds no phrase; any other text may match or not.                       *)
SuspensionVerdictsOf(text) ==
    IF \/ ContainsPhrase(text)
       \/ \E m \in TestedSuspended : Contains(ToLower(text), ToLower(m))
    THEN {TRUE}
    ELSE IF \E m \in TestedNormal : Contains(ToLower(m), ToLower(text))
    THEN {FALSE}
    ELSE BOOLEAN

(* The verdicts, worked out once for each message of the model. *)
SuspensionVerdicts == [text \in ErrorTexts |-> SuspensionVerdictsOf(text)]

IsSuspensionText(text) ==
    IF text \in ErrorTexts THEN SuspensionVerdicts[text] ELSE SuspensionVerdictsOf(text)

NoTokenState ==
    [exists |-> FALSE, FailCount |-> 0, CooldownEnd |-> ZeroTime, IsSuspended |-> FALSE]

UnjitteredBackoff(n) ==
    IF n <= 0 THEN 0
    ELSE Min(BackoffBase * Pow(BackoffMultiplier, n - 1), BackoffMax)

calculateBackoffWideJitter(n) ==
    LET b == UnjitteredBackoff(n)
        j == (b * JitterPercent) \div 100
    IN  IF n <= 0 THEN {0} ELSE (b - 2 * j - 1)..(b + 2 * j + 1)

(* the backoff with a jitter of 0 to 100 percent of it, the percentage    *)
(* left out                                                                *)
calculateBackoffFullJitter(n) ==
    LET b == UnjitteredBackoff(n)
    IN  IF n <= 0 THEN {0} ELSE 0..Min(2 * b, BackoffMax)

(* The set of values the jittered backoff can take: the un-jittered        *)
(* backoff moved by at most the jitter percentage (spec 4.1), and never    *)
(* above the maximum (TestCalculateBackoff_MaxCap).                        *)
calculateBackoff(n) ==
    LET b == UnjitteredBackoff(n)
        j == (b * JitterPercent) \div 100
    IN  IF n <= 0 THEN {0} ELSE {Min(d, BackoffMax) : d \in (b - j)..(b + j)}

(* NewRateLimiterWithConfig(cfg): a field left at its zero value takes the *)
(* default constant.                                                       *)
NewRateLimiterWithConfig(cfg) ==
    [jitterPercent |-> IF cfg.JitterPercent > 0 THEN cfg.JitterPercent ELSE JitterPercent,
     backoffBase |-> IF cfg.BackoffBase > 0 THEN cfg.BackoffBase ELSE BackoffBase,
     backoffMax |-> IF cfg.BackoffMax > 0 THEN cfg.BackoffMax ELSE BackoffMax,
     backoffMultiplier |-> IF cfg.BackoffMultiplier > 0 THEN cfg.BackoffMultiplier
                           ELSE BackoffMultiplier]

(* the jitter applied to the capped backoff and the result returned as it *)
(* is                                                                      *)
calculateBackoffOfJitterLast(rl, n) ==
    LET b == IF n <= 0 THEN 0
             ELSE Min(rl.backoffBase * Pow(rl.backoffMultiplier, n - 1), rl.backoffMax)
        j == (b * rl.jitterPercent) \div 100
    IN  IF n <= 0 THEN {0} ELSE (b - j)..(b + j)

(* calculateBackoff of a configured limiter *)
calculateBackoffOf(rl, n) ==
    LET b == IF n <= 0 THEN 0
             ELSE Min(rl.backoffBase * Pow(rl.backoffMultiplier, n - 1), rl.backoffMax)
        j == (b * rl.jitterPercent) \div 100
    IN  IF n <= 0 THEN {0} ELSE {Min(d, rl.backoffMax) : d \in (b - j)..(b + j)}

IsTokenAvailableNoSuspendCheck(k) ==
    \/ ~rlStates[k].exists
    \/ ~(now < rlStates[k].CooldownEnd)

IsTokenAvailableIgnoringCooldown(k) ==
    \/ ~rlStates[k].exists
    \/ ~rlStates[k].IsSuspended

IsTokenAvailable(k) ==
    \/ ~rlStates[k].exists
    \/ /\ ~rlStates[k].IsSuspended
       /\ ~(now < rlStates[k].CooldownEnd)

MarkTokenFailedStaleCount(k) ==
    /\ rlStates[k].FailCount < MaxFails
    /\ \E d \in calculateBackoff(rlStates[k].FailCount) :
         rlStates' = [rlStates EXCEPT ![k] =
                         [@ EXCEPT !.exists = TRUE,
                                   !.FailCount = @ + 1,
                                   !.CooldownEnd = now + d]]
    /\ rlLastOp' = [op |-> "MarkTokenFailed", key |-> k, at |-> now,
                  result |-> FALSE]
    /\ UNCHANGED <<auxVars, refVars, now, rlMarked, scVars, repoVars>>

MarkTokenFailed(k) ==
    /\ rlStates[k].FailCount < MaxFails
    /\ \E d \in calculateBackoff(rlStates[k].FailCount + 1) :
         rlStates' = [rlStates EXCEPT ![k] =
                         [@ EXCEPT !.exists = TRUE,
                                   !.FailCount = @ + 1,
                                   !.CooldownEnd = now + d]]
    /\ rlLastOp' = [op |-> "MarkTokenFailed", key |-> k, at |-> now,
                  result |-> FALSE]
    /\ UNCHANGED <<auxVars, refVars, now, rlMarked, scVars, repoVars>>

MarkTokenSuccessKeepsCooldown(k) ==
    /\ rlStates' = [rlStates EXCEPT ![k] =
                      IF @.exists THEN [@ EXCEPT !.FailCount = 0] ELSE @]
    /\ rlLastOp' = [op |-> "MarkTokenSuccess", key |-> k, at |-> now,
                  result |-> FALSE]
    /\ UNCHANGED <<auxVars, refVars, now, rlMarked, scVars, repoVars>>

(* MarkTokenSuccess through a get-or-create lookup *)
MarkTokenSuccessCreatesState(k) ==
    /\ rlStates' = [rlStates EXCEPT ![k] =
                      [@ EXCEPT !.exists = TRUE, !.FailCount = 0, !.CooldownEnd = ZeroTime]]
    /\ rlLastOp' = [op |-> "MarkTokenSuccess", key |-> k, at |-> now,
                  result |-> FALSE]
    /\ UNCHANGED <<auxVars, refVars, now, rlMarked, scVars, repoVars>>

MarkTokenSuccess(k) ==
    /\ rlStates' = [rlStates EXCEPT ![k] =
                      IF @.exists
                      THEN [@ EXCEPT !.FailCount = 0, !.CooldownEnd = ZeroTime]
                      ELSE @]
    /\ rlLastOp' = [op |-> "MarkTokenSuccess", key |-> k, at |-> now,
                  result |-> FALSE]
    /\ UNCHANGED <<auxVars, refVars, now, rlMarked, scVars, repoVars>>

CheckAndMarkSuspendedCreatesState(k, text) ==
    \E matched \in IsSuspensionText(text) :
        /\ IF matched
           THEN /\ rlStates' = [rlStates EXCEPT ![k] =
                                   [@ EXCEPT !.exists = TRUE, !.IsSuspended = TRUE]]
                /\ rlMarked' = [rlMarked EXCEPT ![k] = TRUE]
           ELSE /\ rlStates' = [rlStates EXCEPT ![k] = [@ EXCEPT !.exists = TRUE]]
                /\ UNCHANGED rlMarked
        /\ rlLastOp' = [op |-> "CheckAndMarkSuspended", key |-> k, at |-> now,
                        result |-> matched]
        /\ UNCHANGED <<auxVars, refVars, now, scVars, repoVars>>

(* CheckAndMarkSuspended(tokenKey, errorText); rlLastOp.result is what it  *)
(* returned.                                                               *)
CheckAndMarkSuspended(k, text) ==
    \E matched \in IsSuspensionText(text) :
        /\ IF matched
           THEN /\ rlStates' = [rlStates EXCEPT ![k] =
                                   [@ EXCEPT !.exists = TRUE, !.IsSuspended = TRUE]]
                /\ rlMarked' = [rlMarked EXCEPT ![k] = TRUE]
           ELSE UNCHANGED <<rlStates, rlMarked>>
        /\ rlLastOp' = [op |-> "CheckAndMarkSuspended", key |-> k, at |-> now,
                        result |-> matched]
        /\ UNCHANGED <<auxVars, refVars, now, scVars, repoVars>>

(* ResetSuspension that lifts the suspension and leaves the rest *)
ResetSuspensionKeepsFailures(k) ==
    /\ rlStates' = [rlStates EXCEPT ![k] =
                      IF @.exists THEN [@ EXCEPT !.IsSuspended = FALSE] ELSE @]
    /\ rlMarked' = [rlMarked EXCEPT ![k] = FALSE]
    /\ rlLastOp' = [op |-> "ResetSuspension", key |-> k, at |-> now,
                  result |-> FALSE]
    /\ UNCHANGED <<auxVars, refVars, now, scVars, repoVars>>

ResetSuspension(k) ==
    /\ rlStates' = [rlStates EXCEPT ![k] =
                      IF @.exists
                      THEN [@ EXCEPT !.IsSuspended = FALSE,
                                     !.FailCount = 0,
                                     !.CooldownEnd = ZeroTime]
                      ELSE @]
    /\ rlMarked' = [rlMarked EXCEPT ![k] = FALSE]
    /\ rlLastOp' = [op |-> "ResetSuspension", key |-> k, at |-> now,
                  result |-> FALSE]
    /\ UNCHANGED <<auxVars, refVars, now, scVars, repoVars>>

ClearTokenState(k) ==
    /\ rlStates' = [rlStates EXCEPT ![k] = NoTokenState]
    /\ rlMarked' = [rlMarked EXCEPT ![k] = FALSE]
    /\ rlLastOp' = [op |-> "ClearTokenState", key |-> k, at |-> now,
                  result |-> FALSE]
    /\ UNCHANGED <<auxVars, refVars, now, scVars, repoVars>>

RLInit ==
    /\ rlStates = [k \in RLKeys |-> NoTokenState]
    /\ rlMarked = [k \in RLKeys |-> FALSE]
    /\ rlLastOp = [op |-> "NewRateLimiter", key |-> "", at |-> ZeroTime,
                  result |-> FALSE]

RLFailed == \E k \in RLKeys : MarkTokenFailed(k)
RLSuccess == \E k \in RLKeys : MarkTokenSuccess(k)
RLSuspend == \E k \in RLKeys, text \in ErrorTexts : CheckAndMarkSuspended(k, text)
RLReset == \E k \in RLKeys : ResetSuspension(k)
RLClear == \E k \in RLKeys : ClearTokenState(k)

----------------------------------------------------------------------------
(* Health scorer (metrics.go).  The float64 fields of a metrics record    *)
(* are fixed-point numbers in units of 1/Scale, a score is a fixed-point   *)
(* number in units of 1/Unit; a time.Duration is counted in microseconds.  *)

Scale == 1000
TickSeconds == 30
MaxRequests == 3
MaxScorerNow == 3

SCKeys == {"bad", "good"}
LatencyChoices == {1500, 1000000}
QuotaChoices == {100}

(* Duration.Milliseconds(): whole milliseconds, the fraction dropped       *)
(* (integer division that rounds toward zero).                             *)
Milliseconds(d) == IF d >= 0 THEN d \div 1000 ELSE -((-d) \div 1000)

(* Scores are kept to eight decimal places: Unit stands for 1.0.  Every   *)
(* product is taken by halves of HalfUnit so that no intermediate value    *)
(* leaves the 32-bit integers.                                             *)
HalfUnit == 10000
Unit == HalfUnit * HalfUnit

(* a * b for fixed-point a and b: the integer part of a * b / Unit *)
MulUnit(a, b) ==
    LET ah == a \div HalfUnit
        al == a % HalfUnit
        bh == b \div HalfUnit
        bl == b % HalfUnit
    IN  ah * bh + ((ah * bl + al * bh) + ((al * bl) \div HalfUnit)) \div HalfUnit

(* r / d in units of 1/Unit, for 0 <= r < d *)
FracDiv(r, d) ==
    LET h == (r * HalfUnit) \div d
        r1 == (r * HalfUnit) % d
    IN  h * HalfUnit + (r1 * HalfUnit) \div d

(* float64(n) / float64(d) in units of 1/Unit *)
Quot(n, d) == (n \div d) * Unit + FracDiv(n % d, d)

(* 1 - x + x^2/2! - x^3/3! + ... from the k-th term on, x in units of      *)
(* 1/Unit                                                                  *)
RECURSIVE ExpSeries(_, _, _, _)
ExpSeries(x, k, term, acc) ==
    LET t == MulUnit(term, x) \div k
    IN  IF t = 0 THEN acc
        ELSE ExpSeries(x, k + 1, t, IF k % 2 = 1 THEN acc - t ELSE acc + t)

RECURSIVE ExpNegWhole(_, _)
ExpNegWhole(w, r) ==
    IF w <= 0 \/ r = 0 THEN r
    ELSE ExpNegWhole(w - 1, MulUnit(r, ExpSeries(Unit, 1, Unit, Unit)))

(* math.Exp(-x) for x = n / d >= 0, in units of 1/Unit: e^-1 to the whole  *)
(* part of x times the series of its fraction.                             *)
ExpNeg(n, d) ==
    ExpNegWhole(n \div d, ExpSeries(FracDiv(n % d, d), 1, Unit, Unit))

NoMetrics ==
    [exists |-> FALSE, SuccessRate |-> 0, AvgLatency |-> 0, QuotaRemaining |-> 0,
     LastUsed |-> ZeroTime, FailCount |-> 0, TotalRequests |-> 0,
     successCount |-> 0, totalLatency |-> 0]

NewTokenMetrics ==
    [NoMetrics EXCEPT !.exists = TRUE, !.SuccessRate = Scale, !.QuotaRemaining = Scale]

getOrCreateMetrics(k) ==
    IF scMetrics[k].exists THEN scMetrics[k] ELSE NewTokenMetrics

RecordedNoFailReset(m, success, latency) ==
    LET total == m.TotalRequests + 1
        succ == IF success THEN m.successCount + 1 ELSE m.successCount
        lat == m.totalLatency + Milliseconds(latency)
    IN  [m EXCEPT !.TotalRequests = total,
                  !.LastUsed = now,
                  !.totalLatency = lat,
                  !.successCount = succ,
                  !.FailCount = IF success THEN @ ELSE @ + 1,
                  !.SuccessRate = (succ * Scale) \div total,
                  !.AvgLatency = (lat * Scale) \div total]

(* The record RecordRequest leaves for a key whose record was m. *)
Recorded(m, success, latency) ==
    LET total == m.TotalRequests + 1
        succ == IF success THEN m.successCount + 1 ELSE m.successCount
        lat == m.totalLatency + Milliseconds(latency)
    IN  [m EXCEPT !.TotalRequests = total,
                  !.LastUsed = now,
                  !.totalLatency = lat,
                  !.successCount = succ,
                  !.FailCount = IF success THEN 0 ELSE @ + 1,
                  !.SuccessRate = (succ * Scale) \div total,
                  !.AvgLatency = (lat * Scale) \div total]

successRateWeight == 400
quotaWeight == 250
latencyWeight == 200
lastUsedWeight == 150
failPenaltyMultiplier == 100

(* a weight given in thousandths, in units of 1/Unit *)
Weight(w) == w * (Unit \div 1000)

CalculateScoreUnclamped(k) ==
    LET m == scMetrics[k]
        successScore == IF m.TotalRequests = 0 THEN Quot(m.SuccessRate, Scale)
                        ELSE Quot(m.successCount, m.TotalRequests)
        quotaScore == Quot(m.QuotaRemaining, Scale)
        latencyScore == IF m.TotalRequests = 0 THEN Unit
                        ELSE ExpNeg(m.totalLatency, 1000 * m.TotalRequests)
        timeSinceUse == (now - m.LastUsed) * TickSeconds
        lastUsedScore == IF m.LastUsed = ZeroTime THEN Unit
                         ELSE Unit - ExpNeg(timeSinceUse, 60)
        score == MulUnit(Weight(successRateWeight), successScore)
                 + MulUnit(Weight(quotaWeight), quotaScore)
                 + MulUnit(Weight(latencyWeight), latencyScore)
                 + MulUnit(Weight(lastUsedWeight), lastUsedScore)
        penalty == Weight(failPenaltyMultiplier) * m.FailCount
    IN  IF ~m.exists THEN Unit
        ELSE IF m.FailCount > 0
             THEN MulUnit(score, Unit - penalty)
             ELSE score

(* CalculateScore lines 113-149, in units of 1/Unit: the score of the      *)
(* record m at time t.  SuccessRate and AvgLatency are the quotients       *)
(* RecordRequest last stored (lines 77-78): the score takes them to the    *)
(* precision of Unit from the counters they were computed from.            *)
CalculateScoreOf(m, t) ==
    LET successScore == IF m.TotalRequests = 0 THEN Quot(m.SuccessRate, Scale)
                        ELSE Quot(m.successCount, m.TotalRequests)
        quotaScore == Quot(m.QuotaRemaining, Scale)
        latencyScore == IF m.TotalRequests = 0 THEN Unit
                        ELSE ExpNeg(m.totalLatency, 1000 * m.TotalRequests)
        timeSinceUse == (t - m.LastUsed) * TickSeconds
        lastUsedScore == IF m.LastUsed = ZeroTime THEN Unit
                         ELSE Unit - ExpNeg(timeSinceUse, 60)
        score == MulUnit(Weight(successRateWeight), successScore)
                 + MulUnit(Weight(quotaWeight), quotaScore)
                 + MulUnit(Weight(latencyWeight), latencyScore)
                 + MulUnit(Weight(lastUsedWeight), lastUsedScore)
        penalty == Weight(failPenaltyMultiplier) * m.FailCount
    IN  IF m.FailCount > 0
        THEN MulUnit(score, Max(0, Unit - penalty))
        ELSE score

(* CalculateScore(tokenKey), lines 105-112: 1.0 for a key without metrics, *)
(* otherwise the score of its record at the time of the call.              *)
CalculateScore(k) ==
    IF ~scMetrics[k].exists THEN Unit ELSE CalculateScoreOf(scMetrics[k], now)

(* A call of SelectBestToken in progress: the candidates, the scores the   *)
(* call has obtained so far, one CalculateScore at a time, the best so far *)
(* and, once it has returned, the result.                                  *)
NoSelection ==
    [pc |-> "none", tokens |-> <<>>, scores |-> <<>>, bestToken |-> "", bestScore |-> 0,
     result |-> ""]

(* what another goroutine's operation leaves of the record: a call in      *)
(* progress goes on, a returned one is forgotten                           *)
SelectionGoesOn == IF scLastSel.pc = "scoring" THEN scLastSel ELSE NoSelection

(* SelectBestToken(tokens) up to the end of its first CalculateScore       *)
(* (lines 154-162): the empty and the single-candidate input return        *)
(* without scoring.                                                        *)
SelectBestTokenBegins(tokens) ==
    /\ scLastSel.pc # "scoring"
    /\ scLastSel' =
          IF Len(tokens) = 0
          THEN [NoSelection EXCEPT !.pc = "returned", !.tokens = tokens, !.result = ""]
          ELSE IF Len(tokens) = 1
          THEN [NoSelection EXCEPT !.pc = "returned", !.tokens = tokens, !.result = tokens[1]]
          ELSE [pc |-> "scoring", tokens |-> tokens,
                scores |-> <<CalculateScore(tokens[1])>>,
                bestToken |-> tokens[1], bestScore |-> CalculateScore(tokens[1]),
                result |-> ""]
    /\ UNCHANGED <<auxVars, refVars, now, rlVars, repoVars, scMetrics, scHist>>

(* the loop's step with >= for >: a later candidate wins a tie *)
SelectBestTokenScoresLastWins ==
    LET tokens == scLastSel.tokens
        i == Len(scLastSel.scores) + 1
        score == CalculateScore(tokens[i])
        better == score >= scLastSel.bestScore
        bestToken == IF better THEN tokens[i] ELSE scLastSel.bestToken
    IN  /\ scLastSel.pc = "scoring"
        /\ scLastSel' = [pc |-> IF i = Len(tokens) THEN "returned" ELSE "scoring",
                         tokens |-> tokens,
                         scores |-> Append(scLastSel.scores, score),
                         bestToken |-> bestToken,
                         bestScore |-> IF better THEN score ELSE scLastSel.bestScore,
                         result |-> IF i = Len(tokens) THEN bestToken ELSE ""]
        /\ UNCHANGED <<auxVars, refVars, now, rlVars, repoVars, scMetrics, scHist>>

(* One turn of the loop (lines 164-170): CalculateScore of the next        *)
(* candidate, under its own lock and with its own clock reading; after the *)
(* last candidate the call returns bestToken (line 172).                   *)
SelectBestTokenScores ==
    LET tokens == scLastSel.tokens
        i == Len(scLastSel.scores) + 1
        score == CalculateScore(tokens[i])
        better == score > scLastSel.bestScore
        bestToken == IF better THEN tokens[i] ELSE scLastSel.bestToken
    IN  /\ scLastSel.pc = "scoring"
        /\ scLastSel' = [pc |-> IF i = Len(tokens) THEN "returned" ELSE "scoring",
                         tokens |-> tokens,
                         scores |-> Append(scLastSel.scores, score),
                         bestToken |-> bestToken,
                         bestScore |-> IF better THEN score ELSE scLastSel.bestScore,
                         result |-> IF i = Len(tokens) THEN bestToken ELSE ""]
        /\ UNCHANGED <<auxVars, refVars, now, rlVars, repoVars, scMetrics, scHist>>

RECURSIVE SumRequests(_)
SumRequests(keys) ==
    IF keys = {} THEN 0
    ELSE LET k == CHOOSE x \in keys : TRUE
         IN  scMetrics[k].TotalRequests + SumRequests(keys \ {k})

RecordRequest(k, success, latency) ==
    /\ scMetrics' = [scMetrics EXCEPT ![k] = Recorded(getOrCreateMetrics(k), success, latency)]
    /\ scHist' = [scHist EXCEPT ![k] = Append(@, [success |-> success, latency |-> latency])]
    /\ scLastSel' = SelectionGoesOn
    /\ UNCHANGED <<auxVars, refVars, now, rlVars, repoVars>>

SetQuotaRemaining(k, quota) ==
    /\ scMetrics' = [scMetrics EXCEPT ![k] = [getOrCreateMetrics(k) EXCEPT !.QuotaRemaining = quota]]
    /\ scLastSel' = SelectionGoesOn
    /\ UNCHANGED <<auxVars, refVars, now, rlVars, repoVars, scHist>>

ResetMetrics(k) ==
    /\ scMetrics' = [scMetrics EXCEPT ![k] = NoMetrics]
    /\ scHist' = [scHist EXCEPT ![k] = <<>>]
    /\ scLastSel' = SelectionGoesOn
    /\ UNCHANGED <<auxVars, refVars, now, rlVars, repoVars>>

(* ResetAllMetrics that puts fresh records in place of the map *)
ResetAllMetricsCreating ==
    /\ scMetrics' = [k \in DOMAIN scMetrics |-> NewTokenMetrics]
    /\ scHist' = [k \in DOMAIN scHist |-> <<>>]
    /\ scLastSel' = SelectionGoesOn
    /\ UNCHANGED <<auxVars, refVars, now, rlVars, repoVars>>

ResetAllMetrics ==
    /\ scMetrics' = [k \in DOMAIN scMetrics |-> NoMetrics]
    /\ scHist' = [k \in DOMAIN scHist |-> <<>>]
    /\ scLastSel' = SelectionGoesOn
    /\ UNCHANGED <<auxVars, refVars, now, rlVars, repoVars>>

SelectInputs ==
    {<<>>} \cup {<<a>> : a \in SCKeys} \cup {<<a, b>> : a \in SCKeys, b \in SCKeys}
           \cup {<<"good", "bad", "good">>}

SCSelect == \E tokens \in SelectInputs : SelectBestTokenBegins(tokens)

SCRecord == \E k \in SCKeys, success \in BOOLEAN, latency \in LatencyChoices :
                SumRequests(SCKeys) < MaxRequests /\ RecordRequest(k, success, latency)
SCQuota == \E k \in SCKeys, quota \in QuotaChoices : SetQuotaRemaining(k, quota)
SCReset == \E k \in SCKeys : ResetMetrics(k)

SCTick ==
    /\ now < MaxScorerNow
    /\ now' = now + 1
    /\ scLastSel' = SelectionGoesOn
    /\ UNCHANGED <<auxVars, refVars, rlVars, repoVars, scMetrics, scHist>>

SCInit ==
    /\ scMetrics = [k \in SCKeys |-> NoMetrics]
    /\ scHist = [k \in SCKeys |-> <<>>]
    /\ scLastSel = NoSelection

----------------------------------------------------------------------------
(* File system under the repository's base directory.  A directory entry   *)
(* names an inode (0: no such file); a file's content is a sequence of     *)
(* cells, one per JSON member in key order, closed by the End cell; bytes  *)
(* left behind a shorter content written over it follow as Junk cells.     *)

TicksPerSecond == 2
MaxInode == 6
Inodes == 1..MaxInode

(* time.Time.Format(time.RFC3339): whole seconds, the fraction dropped;    *)
(* every stamp has the same number of bytes.                               *)
FormatRFC3339(t) ==
    LET sec == t \div TicksPerSecond
    IN  "T" \o (IF sec < 10 THEN "0" ELSE "") \o ToString(sec) \o "Z"

MaxStamp == MaxNow + 10
IsRFC3339(s) == \E n \in 0..MaxStamp : FormatRFC3339(n * TicksPerSecond) = s
(* time.Parse(time.RFC3339, s) of a string that is one. *)
ParseRFC3339(s) ==
    (CHOOSE n \in 0..MaxStamp : FormatRFC3339(n * TicksPerSecond) = s) * TicksPerSecond

(* A file name: prefix, stem and the sequence of its extensions. *)
FileName(stem) == [pre |-> "kiro-", stem |-> stem, ext |-> <<".json">>]
NameA == FileName("a")
NameB == FileName("b")
NameC == FileName("c")
NameD == FileName("d")
NameE == FileName("e")
CredNames == {NameA, NameB, NameC, NameD, NameE}
(* Two more names a base directory can hold: another provider's file and a *)
(* file with an upper-case extension.                                      *)
NameF == [pre |-> "codex-", stem |-> "f", ext |-> <<".json">>]
NameG == [pre |-> "kiro-", stem |-> "g", ext |-> <<".JSON">>]

(* filepath.Join(baseDir, id) *)
Join(id) == [dir |-> "", name |-> id]
(* filepath.Base(path) *)
Base(path) == path.name
HasSuffixJson(name) == Len(name.ext) > 0 /\ name.ext[Len(name.ext)] = ".json"
LowerExt(e) == IF e = ".JSON" THEN ".json" ELSE e
HasSuffixJsonLower(name) == Len(name.ext) > 0 /\ LowerExt(name.ext[Len(name.ext)]) = ".json"
HasPrefixKiro(name) == name.pre = "kiro-"

(* The file UpdateToken writes for a token ID, and its temporary file. *)
FilePathOf(id) ==
    IF HasSuffixJson(id) THEN Join(id)
    ELSE [Join(id) EXCEPT !.name.ext = Append(@, ".json")]
TmpPathOf(path) == [path EXCEPT !.name.ext = Append(@, ".tmp")]

CredPaths == {Join(n) : n \in CredNames}
(* A file of the same name in a subdirectory of the base directory. *)
SubDirPath(id) == [dir |-> "sub", name |-> id]
Paths == CredPaths \cup {TmpPathOf(q) : q \in CredPaths} \cup {Join(NameF), Join(NameG)}
         \cup {SubDirPath(NameA)}

(* Directory walk order of filepath.WalkDir (lexical). *)
WalkOrder == <<Join(NameF),
               Join(NameA), TmpPathOf(Join(NameA)), Join(NameB), TmpPathOf(Join(NameB)),
               Join(NameC), TmpPathOf(Join(NameC)), Join(NameD), TmpPathOf(Join(NameD)),
               Join(NameE), TmpPathOf(Join(NameE)),
               Join(NameG),
               SubDirPath(NameA)>>

(* Keys of a JSON object in the order json.Marshal writes them. *)
KeyOrder == <<"access_token", "auth_method", "client_id", "client_secret", "email",
              "expires_at", "last_refresh", "profile_arn", "provider", "refresh_token",
              "region", "start_url", "type">>
KeyIndex(k) == CHOOSE i \in 1..Len(KeyOrder) : KeyOrder[i] = k
EndCell == [k |-> "}", v |-> ""]

RECURSIVE MarshalFrom(_, _)
MarshalFrom(obj, i) ==
    IF i > Len(KeyOrder) THEN <<EndCell>>
    ELSE IF KeyOrder[i] \in DOMAIN obj
         THEN <<[k |-> KeyOrder[i], v |-> obj[KeyOrder[i]]]>> \o MarshalFrom(obj, i + 1)
         ELSE MarshalFrom(obj, i + 1)

(* json.MarshalIndent of a map[string]any *)
Marshal(obj) == MarshalFrom(obj, 1)

(* A content is a complete JSON object: closed once, at its end, with its  *)
(* members in order.                                                       *)
IsJSON(c) ==
    /\ Len(c) >= 1
    /\ c[Len(c)] = EndCell
    /\ \A i \in 1..(Len(c) - 1) : c[i] # EndCell
    /\ \A i \in 1..(Len(c) - 2) : KeyIndex(c[i].k) < KeyIndex(c[i + 1].k)

(* json.Unmarshal into a map[string]any of a content that is one. *)
Unmarshal(c) ==
    [k \in {c[i].k : i \in 1..(Len(c) - 1)} |->
        (CHOOSE cell \in {c[i] : i \in 1..(Len(c) - 1)} : cell.k = k).v]

EmptyObj == [k \in {} |-> ""]
Field(obj, k) == IF k \in DOMAIN obj THEN obj[k] ELSE ""
SetField(obj, k, v) == [x \in DOMAIN obj \cup {k} |-> IF x = k THEN v ELSE obj[x]]

(* File-system calls on a world W = [dir, data]; `open` is the set of      *)
(* inodes some writer holds open.                                          *)
Referenced(W, open) == {W.dir[q] : q \in Paths} \cup open
Collect(W, open) ==
    [W EXCEPT !.data = [i \in Inodes |-> IF i \in Referenced(W, open) THEN W.data[i] ELSE <<>>]]
FreeInode(W, open) ==
    CHOOSE i \in Inodes : i \notin Referenced(W, open)
                          /\ \A j \in Inodes : j \notin Referenced(W, open) => i <= j

Exists(W, path) == W.dir[path] # 0
ReadFile(W, path) == W.data[W.dir[path]]

(* os.OpenFile(path, O_WRONLY|O_CREATE|O_TRUNC) *)
OpenTruncInode(W, path, open) ==
    IF Exists(W, path) THEN W.dir[path] ELSE FreeInode(W, open)
OpenTrunc(W, path, open) ==
    LET i == OpenTruncInode(W, path, open)
    IN  [dir |-> [W.dir EXCEPT ![path] = i], data |-> [W.data EXCEPT ![i] = <<>>]]

(* The bytes of a content as json.MarshalIndent(v, "", "  ") lays it out:  *)
(* a member is two blanks, the quoted key, a colon and a blank, the quoted *)
(* value, and the two bytes that part it from the member before (or from   *)
(* the opening brace); the End cell is the line break and the closing      *)
(* brace; a Junk cell is one byte.                                         *)
JunkCell == [k |-> "~", v |-> ""]
RECURSIVE ByteLen(_)
ByteLen(c) ==
    IF c = <<>> THEN 0
    ELSE (IF Head(c) = JunkCell THEN 1
          ELSE IF Head(c) = EndCell THEN 2
          ELSE Len(Head(c).k) + Len(Head(c).v) + 10) + ByteLen(Tail(c))

(* One write of raw at offset 0 of an open file: the bytes of the file     *)
(* beyond the length of raw stay.  raw ends with the closing brace, and so *)
(* does every content written before, so that what stays behind raw is no  *)
(* white space and the file is no JSON.                                    *)
WriteAt0(W, i, raw) ==
    [W EXCEPT !.data[i] =
        raw \o [j \in 1..(IF ByteLen(@) > ByteLen(raw) THEN ByteLen(@) - ByteLen(raw) ELSE 0)
                  |-> JunkCell]]

(* os.Rename(from, to) of an existing file, and os.Remove(path). *)
Rename(W, from, to, open) ==
    Collect([W EXCEPT !.dir = [@ EXCEPT ![to] = W.dir[from], ![from] = 0]], open)
Remove(W, path, open) ==
    Collect([W EXCEPT !.dir[path] = 0], open)

----------------------------------------------------------------------------
(* Token repository (token_repository.go).                                 *)

NilToken ==
    [nil |-> TRUE, ID |-> NameA, AccessToken |-> "", RefreshToken |-> "",
     ExpiresAt |-> ZeroTime, LastVerified |-> ZeroTime, ClientID |-> "",
     ClientSecret |-> "", AuthMethod |-> "", Provider |-> "", StartURL |-> "",
     Region |-> ""]

World == [dir |-> fsDir, data |-> fsData]

(* UpdateToken lines 120-124: the existing file as a map, empty when the   *)
(* file is missing or is no JSON.                                          *)
ExistingData(W, filePath) ==
    IF Exists(W, filePath) /\ IsJSON(ReadFile(W, filePath))
    THEN Unmarshal(ReadFile(W, filePath))
    ELSE EmptyObj

SetIfNotEmpty(obj, k, v) == IF v # "" THEN SetField(obj, k, v) ELSE obj

UpdatedDataAlwaysExpiry(existing, token) ==
    LET d1 == SetField(existing, "access_token", token.AccessToken)
        d2 == SetField(d1, "refresh_token", token.RefreshToken)
        d3 == SetField(d2, "last_refresh", FormatRFC3339(now))
        d4 == SetField(d3, "expires_at", FormatRFC3339(token.ExpiresAt))
        d5 == SetIfNotEmpty(d4, "client_id", token.ClientID)
        d6 == SetIfNotEmpty(d5, "client_secret", token.ClientSecret)
        d7 == SetIfNotEmpty(d6, "auth_method", token.AuthMethod)
        d8 == SetIfNotEmpty(d7, "region", token.Region)
    IN  SetIfNotEmpty(d8, "start_url", token.StartURL)

(* UpdateToken lines 126-150: the map that is written back. *)
UpdatedData(existing, token) ==
    LET d1 == SetField(existing, "access_token", token.AccessToken)
        d2 == SetField(d1, "refresh_token", token.RefreshToken)
        d3 == SetField(d2, "last_refresh", FormatRFC3339(now))
        d4 == IF token.ExpiresAt # ZeroTime
              THEN SetField(d3, "expires_at", FormatRFC3339(token.ExpiresAt))
              ELSE d3
        d5 == SetIfNotEmpty(d4, "client_id", token.ClientID)
        d6 == SetIfNotEmpty(d5, "client_secret", token.ClientSecret)
        d7 == SetIfNotEmpty(d6, "auth_method", token.AuthMethod)
        d8 == SetIfNotEmpty(d7, "region", token.Region)
    IN  SetIfNotEmpty(d8, "start_url", token.StartURL)

(* What a reader finds at a path. *)
Snapshot(W, path) ==
    IF ~Exists(W, path) THEN [exists |-> FALSE, json |-> FALSE, obj |-> EmptyObj]
    ELSE IF ~IsJSON(ReadFile(W, path)) THEN [exists |-> TRUE, json |-> FALSE, obj |-> EmptyObj]
    ELSE [exists |-> TRUE, json |-> TRUE, obj |-> Unmarshal(ReadFile(W, path))]

(* The world a whole, undisturbed UpdateToken(token) leaves; io is the     *)
(* outcome of its file-system calls.                                       *)
UpdateTokenWorld(W, token, io) ==
    LET filePath == FilePathOf(token.ID)
        tmpPath == TmpPathOf(filePath)
        raw == Marshal(UpdatedData(ExistingData(W, filePath), token))
        ino == OpenTruncInode(W, tmpPath, {})
        opened == OpenTrunc(W, tmpPath, {})
        written == WriteAt0(opened, ino, raw)
    IN  CASE io = "ok" -> Rename(written, tmpPath, filePath, {})
          [] io = "write_fail" -> opened
          [] io = "rename_fail" -> Remove(written, tmpPath, {})
          [] io = "remove_fail" -> written

(* The last return of an UpdateToken call, until the next call begins: the *)
(* token it was given, the error it returned ("" for nil) and the clock    *)
(* reading of its line 129.                                                *)
NoUpdate == [called |-> FALSE, token |-> NilToken, failed |-> FALSE, err |-> "", at |-> 0]
Returned(token, err, at) ==
    [called |-> TRUE, token |-> token, failed |-> err # "", err |-> err, at |-> at]

(* UpdateToken, SaveTokenToFile and the handler of POST /refresh, one      *)
(* lock-protected section, file-system call or clock reading at a time.    *)
(* Each caller has its position in the call, what it has read, what it is  *)
(* writing, the file it holds open, the fate io of its file-system calls,  *)
(* and, for the handler, the files of its listing it has not finished.     *)
Writers == {"w1", "w2"}
Savers == {"s1"}
Handlers == {"m1"}
IdleWriter ==
    [pc |-> "idle", token |-> NilToken, existing |-> EmptyObj, files |-> <<>>, raw |-> <<>>,
     fd |-> 0, io |-> "ok", at |-> 0]
ReturnedWriter == [IdleWriter EXCEPT !.pc = "returned"]
OpenFds ==
    {upd[w].fd : w \in {x \in DOMAIN upd : upd[x].pc \in {"opened", "save_opened", "m_opened"}}}

(* UpdateToken(token), lines 99-112: the check of the token, the copy of   *)
(* baseDir under the read lock, and the two returns of an error            *)
UpdateTokenBegins(w, token, io) ==
    /\ upd[w].pc \in {"idle", "returned"}
    /\ IF token.nil \/ repoBaseDir = ""
       THEN /\ lastUpd' = Returned(token,
                                   IF token.nil THEN "token is nil"
                                   ELSE "base directory not configured", now)
            /\ UNCHANGED upd
       ELSE /\ upd' = [upd EXCEPT ![w] = [IdleWriter EXCEPT !.pc = "entered", !.token = token,
                                                            !.io = io]]
            /\ lastUpd' = NoUpdate
    /\ UNCHANGED <<auxVars, refVars, now, rlVars, scVars, fsDir, fsData, repoBaseDir>>

(* lines 121-124: os.ReadFile of the target and json.Unmarshal into the    *)
(* map, which stays empty when either fails                                *)
UReadExisting(w) ==
    /\ upd[w].pc = "entered"
    /\ upd' = [upd EXCEPT ![w].pc = "read",
                          ![w].existing = ExistingData(World, FilePathOf(upd[w].token.ID))]
    /\ UNCHANGED <<auxVars, refVars, now, rlVars, scVars, fsDir, fsData, repoBaseDir, lastUpd>>

(* lines 127-156: the fields set in the map, last_refresh from time.Now(), *)
(* and the map serialized                                                  *)
UMarshal(w) ==
    /\ upd[w].pc = "read"
    /\ upd' = [upd EXCEPT ![w].pc = "marshalled", ![w].at = now, ![w].existing = EmptyObj,
                          ![w].raw = Marshal(UpdatedData(upd[w].existing, upd[w].token))]
    /\ UNCHANGED <<auxVars, refVars, now, rlVars, scVars, fsDir, fsData, repoBaseDir, lastUpd>>

(* line 160, os.WriteFile: open the temporary file, truncating it *)
UOpenTmp(w) ==
    /\ upd[w].pc = "marshalled"
    /\ LET tmpPath == TmpPathOf(FilePathOf(upd[w].token.ID))
           W == OpenTrunc(World, tmpPath, OpenFds)
       IN  /\ fsDir' = W.dir /\ fsData' = W.data
           /\ upd' = [upd EXCEPT ![w].pc = "opened",
                                 ![w].fd = OpenTruncInode(World, tmpPath, OpenFds)]
    /\ UNCHANGED <<auxVars, refVars, now, rlVars, scVars, repoBaseDir, lastUpd>>

(* lines 160-162, os.WriteFile: write the content and close; when the      *)
(* write fails the call returns the error and the temporary file stays     *)
UWriteTmp(w) ==
    /\ upd[w].pc = "opened"
    /\ IF upd[w].io = "write_fail"
       THEN /\ LET W == Collect(World, OpenFds \ {upd[w].fd})
               IN  fsDir' = W.dir /\ fsData' = W.data
            /\ upd' = [upd EXCEPT ![w] = ReturnedWriter]
            /\ lastUpd' = Returned(upd[w].token, "write temp file failed", upd[w].at)
       ELSE /\ LET W == Collect(WriteAt0(World, upd[w].fd, upd[w].raw), OpenFds \ {upd[w].fd})
               IN  fsDir' = W.dir /\ fsData' = W.data
            /\ upd' = [upd EXCEPT ![w].pc = "written", ![w].fd = 0]
            /\ UNCHANGED lastUpd
    /\ UNCHANGED <<auxVars, refVars, now, rlVars, scVars, repoBaseDir>>

(* lines 163 and 168-169: rename the temporary file over the target and    *)
(* return nil; the rename fails when the temporary file is gone or the     *)
(* system refuses it (io "rename_fail", and "remove_fail" when it refuses  *)
(* the removal that follows as well)                                       *)
URename(w) ==
    /\ upd[w].pc = "written"
    /\ LET filePath == FilePathOf(upd[w].token.ID)
           tmpPath == TmpPathOf(filePath)
       IN  IF Exists(World, tmpPath) /\ upd[w].io \notin {"rename_fail", "remove_fail"}
           THEN LET W == Rename(World, tmpPath, filePath, OpenFds)
                IN  /\ fsDir' = W.dir /\ fsData' = W.data
                    /\ upd' = [upd EXCEPT ![w] = ReturnedWriter]
                    /\ lastUpd' = Returned(upd[w].token, "", upd[w].at)
           ELSE /\ UNCHANGED <<fsDir, fsData, lastUpd>>
                /\ upd' = [upd EXCEPT ![w].pc = "rename_failed"]
    /\ UNCHANGED <<auxVars, refVars, now, rlVars, scVars, repoBaseDir>>

(* lines 164-165: after a failed rename, os.Remove of the temporary file,  *)
(* whose error is discarded, and the return of the rename's error; when    *)
(* the removal fails too the temporary file stays                          *)
URemoveTmp(w) ==
    /\ upd[w].pc = "rename_failed"
    /\ LET tmpPath == TmpPathOf(FilePathOf(upd[w].token.ID))
           W == IF upd[w].io = "remove_fail" THEN World ELSE Remove(World, tmpPath, OpenFds)
       IN  fsDir' = W.dir /\ fsData' = W.data
    /\ upd' = [upd EXCEPT ![w] = ReturnedWriter]
    /\ lastUpd' = Returned(upd[w].token, "rename failed", upd[w].at)
    /\ UNCHANGED <<auxVars, refVars, now, rlVars, scVars, repoBaseDir>>

(* KiroTokenStorage (token.go:11-38) as a record of its JSON members, and   *)
(* json.Unmarshal into it of an object: a member the object lacks is the   *)
(* empty string.                                                           *)
StorageAlways ==
    {"type", "access_token", "refresh_token", "profile_arn", "expires_at", "auth_method",
     "provider", "last_refresh"}
StorageOmitEmpty == {"client_id", "client_secret", "region", "start_url", "email"}
UnmarshalStorage(obj) == [k \in StorageAlways \cup StorageOmitEmpty |-> Field(obj, k)]

(* json.MarshalIndent of a KiroTokenStorage: the members without omitempty *)
(* always, the others when they are not empty.  (The order of the members  *)
(* in the file is not part of what a reader gets, and contents keep the    *)
(* order of KeyOrder.)                                                     *)
MarshalStorage(storage) ==
    Marshal([k \in StorageAlways \cup {x \in StorageOmitEmpty : storage[x] # ""} |-> storage[k]])

(* KiroTokenStorage.SaveTokenToFile(authFilePath), token.go:41-57; io is   *)
(* the fate of its file-system calls.  Lines 42-52: when the directory     *)
(* cannot be made or os.WriteFile cannot open the file the call returns    *)
(* the error and has changed nothing; otherwise the storage is serialized  *)
(* and os.WriteFile opens the credential file itself, truncating it, ...   *)
SaveOutcomes == {"ok", "open_fail", "write_fail"}
SaveTokenToFileOpens(w, path, storage, io) ==
    /\ upd[w].pc \in {"idle", "saved", "save_failed"}
    /\ IF io = "open_fail"
       THEN /\ upd' = [upd EXCEPT ![w] = [IdleWriter EXCEPT !.pc = "save_failed"]]
            /\ UNCHANGED <<fsDir, fsData>>
       ELSE LET W == OpenTrunc(World, path, OpenFds)
            IN  /\ fsDir' = W.dir /\ fsData' = W.data
                /\ upd' = [upd EXCEPT ![w] =
                             [IdleWriter EXCEPT !.pc = "save_opened", !.io = io,
                                                !.raw = MarshalStorage(storage),
                                                !.fd = OpenTruncInode(World, path, OpenFds)]]
    /\ UNCHANGED <<auxVars, refVars, now, rlVars, scVars, repoBaseDir, lastUpd>>

(* ... lines 52-56: writes the content, closes and returns nil; when the   *)
(* write fails the call returns the error and the file stays as the open   *)
(* left it.                                                                *)
SaveTokenToFileWrites(w) ==
    /\ upd[w].pc = "save_opened"
    /\ IF upd[w].io = "write_fail"
       THEN /\ LET W == Collect(World, OpenFds \ {upd[w].fd})
               IN  fsDir' = W.dir /\ fsData' = W.data
            /\ upd' = [upd EXCEPT ![w] = [IdleWriter EXCEPT !.pc = "save_failed"]]
       ELSE /\ LET W == Collect(WriteAt0(World, upd[w].fd, upd[w].raw), OpenFds \ {upd[w].fd})
               IN  fsDir' = W.dir /\ fsData' = W.data
            /\ upd' = [upd EXCEPT ![w] = [IdleWriter EXCEPT !.pc = "saved"]]
    /\ UNCHANGED <<auxVars, refVars, now, rlVars, scVars, repoBaseDir, lastUpd>>

(* OAuthWebHandler.handleManualRefresh (oauth_web.go:834-960), the handler *)
(* of POST /refresh, over the directory the repository has for its base    *)
(* directory.  Lines 835-875: os.ReadDir of the directory; the loop takes  *)
(* the files, in the order of their names, whose name begins with "kiro-"  *)
(* and ends with ".json".  The response, which counts the files refreshed  *)
(* and lists the errors, is not kept, and no callback is set.              *)
ManualRefreshFiles(W) ==
    SelectSeq(WalkOrder, LAMBDA q : /\ q.dir = "" /\ Exists(W, q)
                                    /\ HasPrefixKiro(Base(q)) /\ HasSuffixJson(Base(q)))

(* what is left to the handler after the file it was at; after the last   *)
(* it has responded                                                        *)
ManualRefreshGoesOn(m) ==
    IF Len(upd[m].files) > 1
    THEN [IdleWriter EXCEPT !.pc = "m_listed", !.files = Tail(upd[m].files)]
    ELSE [IdleWriter EXCEPT !.pc = "m_done"]

handleManualRefreshLists(m) ==
    /\ upd[m].pc \in {"idle", "m_done"}
    /\ upd' = [upd EXCEPT ![m] =
                 IF ManualRefreshFiles(World) = <<>> THEN [IdleWriter EXCEPT !.pc = "m_done"]
                 ELSE [IdleWriter EXCEPT !.pc = "m_listed", !.files = ManualRefreshFiles(World)]]
    /\ UNCHANGED <<auxVars, refVars, now, rlVars, scVars, fsDir, fsData, repoBaseDir, lastUpd>>

(* lines 878-894: os.ReadFile of the file and json.Unmarshal into a        *)
(* KiroTokenStorage; the loop goes on to the next file when either fails   *)
(* or the storage has no refresh token                                     *)
handleManualRefreshReads(m) ==
    /\ upd[m].pc = "m_listed"
    /\ LET snap == Snapshot(World, Head(upd[m].files))
       IN  upd' = [upd EXCEPT ![m] =
                     IF ~snap.json \/ Field(snap.obj, "refresh_token") = ""
                     THEN ManualRefreshGoesOn(m)
                     ELSE [@ EXCEPT !.pc = "m_read", !.existing = UnmarshalStorage(snap.obj)]]
    /\ UNCHANGED <<auxVars, refVars, now, rlVars, scVars, fsDir, fsData, repoBaseDir, lastUpd>>

(* What refreshTokenData can return (lines 897-901): an error, or the data *)
(* of a refreshed token, with or without a new refresh token.              *)
NoTokenData == [err |-> TRUE, AccessToken |-> "", RefreshToken |-> "", ExpiresAt |-> "",
                ProfileArn |-> ""]
TokenDataChoices ==
    {NoTokenData,
     [err |-> FALSE, AccessToken |-> "at3", RefreshToken |-> "", ExpiresAt |-> FormatRFC3339(14),
      ProfileArn |-> "arn3"]}

(* lines 896-919: refreshTokenData has returned; after an error the loop   *)
(* goes on, otherwise the storage takes the new data, last_refresh from    *)
(* time.Now(), and is serialized                                           *)
handleManualRefreshMarshals(m, tokenData, io) ==
    /\ upd[m].pc = "m_read"
    /\ upd' = [upd EXCEPT ![m] =
                 IF tokenData.err THEN ManualRefreshGoesOn(m)
                 ELSE LET s0 == upd[m].existing
                          s1 == [s0 EXCEPT !["access_token"] = tokenData.AccessToken,
                                           !["refresh_token"] =
                                               IF tokenData.RefreshToken # ""
                                               THEN tokenData.RefreshToken ELSE @,
                                           !["expires_at"] = tokenData.ExpiresAt,
                                           !["last_refresh"] = FormatRFC3339(now),
                                           !["profile_arn"] =
                                               IF tokenData.ProfileArn # ""
                                               THEN tokenData.ProfileArn ELSE @]
                      IN  [@ EXCEPT !.pc = "m_marshalled", !.existing = EmptyObj, !.io = io,
                                    !.at = now, !.raw = MarshalStorage(s1)]]
    /\ UNCHANGED <<auxVars, refVars, now, rlVars, scVars, fsDir, fsData, repoBaseDir, lastUpd>>

(* line 922, os.WriteFile: open the temporary file, truncating it *)
handleManualRefreshOpensTmp(m) ==
    /\ upd[m].pc = "m_marshalled"
    /\ LET tmpFile == TmpPathOf(Head(upd[m].files))
           W == OpenTrunc(World, tmpFile, OpenFds)
       IN  /\ fsDir' = W.dir /\ fsData' = W.data
           /\ upd' = [upd EXCEPT ![m].pc = "m_opened",
                                 ![m].fd = OpenTruncInode(World, tmpFile, OpenFds)]
    /\ UNCHANGED <<auxVars, refVars, now, rlVars, scVars, repoBaseDir, lastUpd>>

(* lines 922-925, os.WriteFile: write the content and close; when the      *)
(* write fails the loop goes on and the temporary file stays               *)
handleManualRefreshWritesTmp(m) ==
    /\ upd[m].pc = "m_opened"
    /\ IF upd[m].io = "write_fail"
       THEN /\ LET W == Collect(World, OpenFds \ {upd[m].fd})
               IN  fsDir' = W.dir /\ fsData' = W.data
            /\ upd' = [upd EXCEPT ![m] = ManualRefreshGoesOn(m)]
       ELSE /\ LET W == Collect(WriteAt0(World, upd[m].fd, upd[m].raw), OpenFds \ {upd[m].fd})
               IN  fsDir' = W.dir /\ fsData' = W.data
            /\ upd' = [upd EXCEPT ![m].pc = "m_written", ![m].fd = 0]
    /\ UNCHANGED <<auxVars, refVars, now, rlVars, scVars, repoBaseDir, lastUpd>>

(* lines 926-937: rename the temporary file over the file; when the rename *)
(* fails the loop goes on and the temporary file, if there is one, stays   *)
handleManualRefreshRenames(m) ==
    /\ upd[m].pc = "m_written"
    /\ LET filePath == Head(upd[m].files)
           tmpFile == TmpPathOf(filePath)
       IN  IF Exists(World, tmpFile) /\ upd[m].io # "rename_fail"
           THEN LET W == Rename(World, tmpFile, filePath, OpenFds)
                IN  fsDir' = W.dir /\ fsData' = W.data
           ELSE UNCHANGED <<fsDir, fsData>>
    /\ upd' = [upd EXCEPT ![m] = ManualRefreshGoesOn(m)]
    /\ UNCHANGED <<auxVars, refVars, now, rlVars, scVars, repoBaseDir, lastUpd>>

UReads == \E w \in Writers : UReadExisting(w)
UStamps == \E w \in Writers : UMarshal(w)
UOpen == \E w \in Writers : UOpenTmp(w)
UWrite == \E w \in Writers : UWriteTmp(w)
UMove == \E w \in Writers : URename(w)
UCleanup == \E w \in Writers : URemoveTmp(w)

(* readTokenFile lines 173-237: err is set when the file cannot be read or *)
(* is no JSON; the token is nil when the file is no device-flow Kiro       *)
(* credential.                                                             *)
TimeField(obj, k) ==
    IF k \in DOMAIN obj /\ IsRFC3339(obj[k]) THEN ParseRFC3339(obj[k]) ELSE ZeroTime

readTokenFile(W, path) ==
    IF ~Exists(W, path) \/ ~IsJSON(ReadFile(W, path))
    THEN [err |-> TRUE, token |-> NilToken]
    ELSE LET metadata == Unmarshal(ReadFile(W, path))
             authMethod == Field(metadata, "auth_method")
         IN  IF Field(metadata, "type") # "kiro" THEN [err |-> FALSE, token |-> NilToken]
             ELSE IF authMethod # "idc" /\ authMethod # "builder-id"
                  THEN [err |-> FALSE, token |-> NilToken]
             ELSE [err |-> FALSE,
                   token |-> [nil |-> FALSE, ID |-> Base(path), AuthMethod |-> authMethod,
                              AccessToken |-> Field(metadata, "access_token"),
                              RefreshToken |-> Field(metadata, "refresh_token"),
                              ClientID |-> Field(metadata, "client_id"),
                              ClientSecret |-> Field(metadata, "client_secret"),
                              Region |-> Field(metadata, "region"),
                              StartURL |-> Field(metadata, "start_url"),
                              Provider |-> Field(metadata, "provider"),
                              ExpiresAt |-> TimeField(metadata, "expires_at"),
                              LastVerified |-> TimeField(metadata, "last_refresh")]]

(* The look-ahead window of line 75 (five minutes), scaled to clock ticks. *)
RefreshWindow == 4

(* lines 72-77: the token is kept when it can be refreshed and expires     *)
(* within the window or has no known expiry; t is what time.Now() gives    *)
(* inside time.Until.                                                      *)
NeedsRefresh(token, t) ==
    /\ ~token.nil
    /\ token.RefreshToken # ""
    /\ (token.ExpiresAt = ZeroTime \/ token.ExpiresAt - t < RefreshWindow)

(* lines 52-80: the callback of filepath.WalkDir, over the walk from its   *)
(* i-th entry on; at[path] is the clock reading of the callback on path.   *)
RECURSIVE WalkFrom(_, _, _)
WalkFrom(W, i, at) ==
    IF i > Len(WalkOrder) THEN <<>>
    ELSE LET path == WalkOrder[i]
             read == readTokenFile(W, path)
             rest == WalkFrom(W, i + 1, at)
         IN  IF ~Exists(W, path) THEN rest
             ELSE IF ~HasSuffixJsonLower(Base(path)) THEN rest
             ELSE IF ~HasPrefixKiro(Base(path)) THEN rest
             ELSE IF read.err THEN rest
             ELSE IF NeedsRefresh(read.token, at[path]) THEN <<read.token>> \o rest
             ELSE rest

(* sort.Slice of lines 88-90 on a short slice: insertion sort, an element  *)
(* moves left while its LastVerified is before its predecessor's.          *)
RECURSIVE InsertByLastVerified(_, _)
InsertByLastVerified(sorted, t) ==
    IF sorted = <<>> THEN <<t>>
    ELSE IF t.LastVerified < sorted[Len(sorted)].LastVerified
         THEN Append(InsertByLastVerified(SubSeq(sorted, 1, Len(sorted) - 1), t),
                     sorted[Len(sorted)])
         ELSE Append(sorted, t)

(* no sort: the walk order is kept *)
WalkOrderKept(tokens) == tokens

RECURSIVE SortByLastVerified(_)
SortByLastVerified(tokens) ==
    IF tokens = <<>> THEN <<>>
    ELSE InsertByLastVerified(SortByLastVerified(SubSeq(tokens, 1, Len(tokens) - 1)),
                              tokens[Len(tokens)])

(* a truncation that takes limit 0 for a limit *)
TruncateAtZero(tokens, limit) ==
    IF limit >= 0 /\ Len(tokens) > limit THEN SubSeq(tokens, 1, limit) ELSE tokens

(* lines 93-95 *)
Truncate(tokens, limit) ==
    IF limit > 0 /\ Len(tokens) > limit THEN SubSeq(tokens, 1, limit) ELSE tokens

(* the clock as a walk reads it that no tick interrupts *)
AtNow == [q \in Paths |-> now]

FindOldestUnverifiedUntruncated(W, limit) ==
    IF repoBaseDir = "" THEN <<>>
    ELSE SortByLastVerified(WalkFrom(W, 1, AtNow))

(* FindOldestUnverified(limit) when nothing runs between its steps         *)
FindOldestUnverified(W, limit) ==
    IF repoBaseDir = "" THEN <<>>
    ELSE Truncate(SortByLastVerified(WalkFrom(W, 1, AtNow)), limit)

(* SetBaseDir(dir) *)
TrimSpace(dir) == IF dir = " " THEN "" ELSE dir
SetBaseDir(dir) ==
    /\ repoBaseDir' = TrimSpace(dir)
    /\ UNCHANGED <<auxVars, refVars, now, rlVars, scVars, fsDir, fsData, upd, lastUpd>>

(* Credential files as the OAuth flow leaves them (KiroTokenStorage). *)
StoredCredential(expiresAt, lastRefresh) ==
    [type |-> "kiro", access_token |-> "at0", refresh_token |-> "rt0",
     auth_method |-> "idc", client_id |-> "cid0", email |-> "user@example.com",
     expires_at |-> FormatRFC3339(expiresAt), last_refresh |-> FormatRFC3339(lastRefresh)]

StoredWithoutExpiry ==
    [type |-> "kiro", access_token |-> "at0", refresh_token |-> "rt0",
     auth_method |-> "idc", email |-> "user@example.com"]

(* Tokens handed to UpdateToken. *)
ExpiryChoices == {ZeroTime, 7, 10, 14}
TokenFor(id, n, expiresAt, full) ==
    [nil |-> FALSE, ID |-> id,
     AccessToken |-> "at" \o ToString(n), RefreshToken |-> "rt" \o ToString(n),
     ExpiresAt |-> expiresAt, LastVerified |-> ZeroTime, Provider |-> "",
     ClientID |-> IF full THEN "cid1" ELSE "",
     ClientSecret |-> IF full THEN "secret1" ELSE "",
     AuthMethod |-> IF full THEN "builder-id" ELSE "",
     Region |-> IF full THEN "us-east-1" ELSE "",
     StartURL |-> IF full THEN "https://start" ELSE ""]

RepoTokens ==
    {NilToken} \cup {TokenFor(NameA, 1, e, FALSE) : e \in ExpiryChoices}
               \cup {TokenFor(NameA, 2, 10, TRUE)}
IOOutcomes == {"ok", "write_fail", "rename_fail"}
(* The calls of UpdateToken: every token with every fate of the write and  *)
(* the rename, and one call whose rename and removal are both refused.     *)
RepoCalls ==
    (RepoTokens \X IOOutcomes) \cup {<<TokenFor(NameA, 1, 10, FALSE), "remove_fail">>}

RepoUpdate == \E call \in RepoCalls : UpdateTokenBegins("w1", call[1], call[2])
RepoSetBaseDir == \E dir \in {"", " ", "auths"} : SetBaseDir(dir)

OneFile(path, content) ==
    /\ fsDir = [q \in Paths |-> IF q = path THEN 1 ELSE 0]
    /\ fsData = [i \in Inodes |-> IF i = 1 THEN content ELSE <<>>]

RepoIdle ==
    /\ repoBaseDir = "auths"
    /\ upd = [w \in Writers \cup Savers \cup Handlers |-> IdleWriter]
    /\ lastUpd = NoUpdate

EmptyRepo ==
    /\ fsDir = [q \in Paths |-> 0]
    /\ fsData = [i \in Inodes |-> <<>>]
    /\ RepoIdle

----------------------------------------------------------------------------
(* Background refresher and its manager (RefreshManager).                  *)

(* Worker-pool size and batch size of the refresher (Initialize configures *)
(* 10 and 50; the model keeps their order, batch above pool, at a size it  *)
(* can enumerate), how long a refreshed token lives in clock ticks, and    *)
(* how many cycles a behaviour runs.                                       *)
Concurrency == 2
BatchSize == 3
TokenLifetime == 8
MaxCycles == 2

NoRefresher ==
    [loops |-> 0, cycle |-> 0, cancelled |-> FALSE, batch |-> <<>>, next |-> 0,
     inFlight |-> {}, outcome |-> {},
     batchSize |-> 0, concurrency |-> 0]

(* NewBackgroundRefresher(repo, WithBatchSize, WithConcurrency) *)
NewBackgroundRefresher(batchSize, concurrency) ==
    [NoRefresher EXCEPT !.batchSize = batchSize, !.concurrency = concurrency]

NewRefreshManager == [started |-> FALSE, refresher |-> FALSE, ctx |-> "none"]

RefIdle ==
    /\ rm = NewRefreshManager
    /\ br = NoRefresher

(* The last two Initialize and Start calls made on the manager: the call, *)
(* the base directory passed, the error returned.                          *)
NoManagerOp == [op |-> "none", baseDir |-> "", err |-> "nil", prevOp |-> "none", prevDir |-> ""]
ManagerOp(op, baseDir) ==
    [op |-> op, baseDir |-> baseDir, err |-> "nil",
     prevOp |-> rmLastOp.op, prevDir |-> rmLastOp.baseDir]

(* util.ResolveAuthDir(dir), what it can return: "" for "", the path under *)
(* the home directory for a leading "~", or "" with an error when the home *)
(* directory is unknown, and the cleaned path otherwise.                   *)
ResolveAuthDir(dir) ==
    CASE dir = "" -> {""}
      [] dir = "~/auths" -> {"/home/user/auths", ""}
      [] OTHER -> {dir}

InitializeUnguarded(baseDir) ==
    IF rm.started
    THEN UNCHANGED <<rm, br, repoBaseDir>>
    ELSE /\ \E resolvedBaseDir \in ResolveAuthDir(baseDir) :
              repoBaseDir' = IF resolvedBaseDir # "" THEN resolvedBaseDir ELSE baseDir
         /\ rm' = [rm EXCEPT !.refresher = TRUE]
         /\ br' = [NewBackgroundRefresher(BatchSize, Concurrency) EXCEPT
                     !.cycle = br.cycle, !.cancelled = br.cancelled,
                     !.inFlight = br.inFlight]

(* RefreshManager.Initialize(baseDir, cfg).  Refresh calls of an earlier   *)
(* refresher that are still in flight go on.  Every path returns nil.  The *)
(* call writes the manager, its refresher and the repository it creates.   *)
Initialize(baseDir) ==
    IF rm.started \/ baseDir = ""
    THEN UNCHANGED <<rm, br, repoBaseDir>>
    ELSE /\ \E resolvedBaseDir \in ResolveAuthDir(baseDir) :
              repoBaseDir' = IF resolvedBaseDir # "" THEN resolvedBaseDir ELSE baseDir
         /\ rm' = [rm EXCEPT !.refresher = TRUE]
         /\ br' = [NewBackgroundRefresher(BatchSize, Concurrency) EXCEPT
                     !.cycle = br.cycle, !.cancelled = br.cancelled,
                     !.inFlight = br.inFlight]

(* BackgroundRefresher.Start(ctx): one more scheduling loop. *)
RefresherStarted(r) == [r EXCEPT !.loops = @ + 1]
(* BackgroundRefresher.Stop(): the loop ends, its cycle is given up; calls *)
(* in flight finish on their own.                                          *)
RefresherStopped(r) == [r EXCEPT !.loops = 0, !.cancelled = TRUE]

StartUnguarded ==
    IF ~rm.refresher
    THEN UNCHANGED <<rm, br>>
    ELSE /\ rm' = [rm EXCEPT !.ctx = "live", !.started = TRUE]
         /\ br' = RefresherStarted(br)

(* RefreshManager.Start() *)
Start ==
    IF rm.started \/ ~rm.refresher
    THEN UNCHANGED <<rm, br>>
    ELSE /\ rm' = [rm EXCEPT !.ctx = "live", !.started = TRUE]
         /\ br' = RefresherStarted(br)

(* RefreshManager.Stop() *)
Stop ==
    /\ IF ~rm.started
       THEN UNCHANGED <<rm, br>>
       ELSE /\ rm' = [rm EXCEPT !.ctx = "cancelled", !.started = FALSE]
            /\ br' = RefresherStopped(br)
    /\ UNCHANGED <<auxVars, now, rlVars, scVars, repoVars>>

(* RefreshManager.IsRunning() *)
IsRunning == rm.started

(* The refresher's loop. *)
InFlightOf(cycle) == {f \in br.inFlight : f.cycle = cycle}
CycleOver == br.cancelled \/ (br.next = Len(br.batch) /\ InFlightOf(br.cycle) = {})
LoopLive == br.loops > 0 /\ rm.ctx = "live"

(* The interval timer fires: FindStale(batchSize) gives the cycle's batch. *)
BeginCycle ==
    /\ LoopLive
    /\ br.cycle = 0 \/ CycleOver
    /\ br.cycle < MaxCycles
    /\ br' = [br EXCEPT !.cycle = @ + 1, !.cancelled = FALSE, !.next = 0, !.outcome = {},
                        !.batch = FindOldestUnverified(World, br.batchSize)]
    /\ UNCHANGED <<auxVars, now, rlVars, scVars, repoVars, rm>>

(* The loop hands the next token of the batch to a free worker. *)
Dispatch ==
    /\ LoopLive /\ br.cycle > 0 /\ ~br.cancelled
    /\ br.next < Len(br.batch)
    /\ Cardinality(InFlightOf(br.cycle)) < br.concurrency
    /\ br' = [br EXCEPT !.next = @ + 1,
                        !.inFlight = @ \cup {[id |-> br.batch[br.next + 1].ID, cycle |-> br.cycle]}]
    /\ UNCHANGED <<auxVars, now, rlVars, scVars, repoVars, rm>>

RefreshOutcomes == {"ok", "refresh_failed", "write_failed"}
RefreshedToken(id) == TokenFor(id, 1, now + TokenLifetime, FALSE)

Noted(r, f, outcome) ==
    [r EXCEPT !.inFlight = @ \ {f},
              !.outcome = IF f.cycle = r.cycle THEN @ \cup {[id |-> f.id, result |-> outcome]}
                          ELSE @]

CompleteAborting(f, outcome) ==
    /\ f \in br.inFlight
    /\ IF outcome = "refresh_failed"
       THEN UNCHANGED <<fsDir, fsData>>
       ELSE LET W == UpdateTokenWorld(World, RefreshedToken(f.id),
                                      IF outcome = "ok" THEN "ok" ELSE "rename_fail")
            IN  fsDir' = W.dir /\ fsData' = W.data
    /\ br' = IF outcome = "ok" \/ f.cycle # br.cycle THEN Noted(br, f, outcome)
             ELSE [Noted(br, f, outcome) EXCEPT !.next = Len(br.batch)]
    /\ UNCHANGED <<auxVars, now, rlVars, scVars, repoBaseDir, upd, lastUpd, rm>>

(* One refresh in flight ends: the external refresh call, then the         *)
(* write-back through UpdateToken; a failure of either is logged and the   *)
(* token skipped.                                                          *)
Complete(f, outcome) ==
    /\ f \in br.inFlight
    /\ IF outcome = "refresh_failed"
       THEN UNCHANGED <<fsDir, fsData>>
       ELSE LET W == UpdateTokenWorld(World, RefreshedToken(f.id),
                                      IF outcome = "ok" THEN "ok" ELSE "rename_fail")
            IN  fsDir' = W.dir /\ fsData' = W.data
    /\ br' = Noted(br, f, outcome)
    /\ UNCHANGED <<auxVars, now, rlVars, scVars, repoBaseDir, upd, lastUpd, rm>>

-----------------------------------------------------------------------------
(* Reads of the rate limiter and of the scorer.  rd holds the last read    *)
(* and what it returned: isNil for a nil pointer, available for a bool,    *)
(* score for a float64 in units of 1/Unit.                                 *)

NoRead == [op |-> "", key |-> "", isNil |-> FALSE, available |-> FALSE, score |-> 0]

(* RateLimiter.IsTokenAvailable(tokenKey) *)
ReadIsTokenAvailable(k) ==
    /\ rd' = [NoRead EXCEPT !.op = "IsTokenAvailable", !.key = k,
                            !.available = IsTokenAvailable(k)]
    /\ UNCHANGED <<cdVars, fpVars, found, rmLastOp, held, calc, sw, refVars, now, rlVars, scVars, repoVars>>

(* RateLimiter.GetTokenState(tokenKey): nil, or a copy of the state *)
GetTokenState(k) ==
    /\ rd' = [NoRead EXCEPT !.op = "GetTokenState", !.key = k,
                            !.isNil = ~rlStates[k].exists]
    /\ UNCHANGED <<cdVars, fpVars, found, rmLastOp, held, calc, sw, refVars, now, rlVars, scVars, repoVars>>

(* GetMetrics under another lookup: the entry is created when missing.     *)
GetMetricsCreating(k) ==
    /\ rd' = [NoRead EXCEPT !.op = "GetMetrics", !.key = k,
                            !.isNil = ~scMetrics[k].exists]
    /\ scMetrics' = [scMetrics EXCEPT ![k] = getOrCreateMetrics(k)]
    /\ UNCHANGED <<cdVars, fpVars, found, rmLastOp, held, calc, sw, refVars, now, rlVars, scHist, scLastSel,
                   repoVars>>

(* TokenScorer.GetMetrics(tokenKey): nil, or a copy of the metrics *)
GetMetrics(k) ==
    /\ rd' = [NoRead EXCEPT !.op = "GetMetrics", !.key = k,
                            !.isNil = ~scMetrics[k].exists]
    /\ UNCHANGED <<cdVars, fpVars, found, rmLastOp, held, calc, sw, refVars, now, rlVars, scVars, repoVars>>

(* a call of TokenScorer.CalculateScore(tokenKey) *)
ReadCalculateScore(k) ==
    /\ rd' = [NoRead EXCEPT !.op = "CalculateScore", !.key = k,
                            !.score = CalculateScore(k)]
    /\ UNCHANGED <<cdVars, fpVars, found, rmLastOp, held, calc, sw, refVars, now, rlVars, scVars, repoVars>>

-----------------------------------------------------------------------------
(* CooldownManager: two maps keyed by token key, an end time and a reason. *)
(* cdDur remembers the duration each entry was set with, cdLastOp the      *)
(* last operation.  Durations are in clock ticks.                          *)

CooldownReason429 == "rate_limit_exceeded"
CooldownReasonSuspended == "account_suspended"
CooldownReasonQuotaExhausted == "quota_exhausted"

CDKeys == {"cd1", "cd2"}
DurationChoices == {-1, 0, 1, 3}
ReasonChoices == {CooldownReason429, CooldownReasonSuspended}
MaxCooldownNow == 5

Put(map, k, v) == [x \in DOMAIN map \cup {k} |-> IF x = k THEN v ELSE map[x]]
Delete(map, k) == [x \in DOMAIN map \ {k} |-> map[x]]

(* cdLastOp: the operation, its arguments, the end time it found for its   *)
(* key (ZeroTime when none) and the keys it removed.                       *)
NoCooldownOp ==
    [op |-> "NewCooldownManager", key |-> "", at |-> ZeroTime, d |-> 0, reason |-> "",
     prev |-> ZeroTime, removed |-> {}]

EndOf(k) == IF k \in DOMAIN cooldowns THEN cooldowns[k] ELSE ZeroTime

NewCooldownManager ==
    /\ cooldowns = [k \in {} |-> ZeroTime]
    /\ reasons = [k \in {} |-> ""]
    /\ cdDur = [k \in {} |-> 0]
    /\ cdLastOp = NoCooldownOp

Expired == {k \in DOMAIN cooldowns : now > cooldowns[k]}

(* SetCooldown that only ever extends a cooldown *)
SetCooldownKeepsLater(k, d, reason) ==
    /\ cooldowns' = Put(cooldowns, k,
                        IF k \in DOMAIN cooldowns /\ cooldowns[k] > now + d
                        THEN cooldowns[k] ELSE now + d)
    /\ reasons' = Put(reasons, k, reason)
    /\ cdDur' = Put(cdDur, k, d)
    /\ cdLastOp' = [NoCooldownOp EXCEPT !.op = "SetCooldown", !.key = k, !.at = now, !.d = d,
                                       !.reason = reason, !.prev = EndOf(k)]
    /\ UNCHANGED <<rd, fpVars, found, rmLastOp, held, calc, sw, refVars, now, rlVars, scVars, repoVars>>

SetCooldown(k, d, reason) ==
    /\ cooldowns' = Put(cooldowns, k, now + d)
    /\ reasons' = Put(reasons, k, reason)
    /\ cdDur' = Put(cdDur, k, d)
    /\ cdLastOp' = [NoCooldownOp EXCEPT !.op = "SetCooldown", !.key = k, !.at = now, !.d = d,
                                       !.reason = reason, !.prev = EndOf(k)]
    /\ UNCHANGED <<rd, fpVars, found, rmLastOp, held, calc, sw, refVars, now, rlVars, scVars, repoVars>>

IsInCooldown(k) == k \in DOMAIN cooldowns /\ now < cooldowns[k]

GetRemainingCooldown(k) ==
    IF k \notin DOMAIN cooldowns THEN 0
    ELSE LET remaining == cooldowns[k] - now
         IN  IF remaining < 0 THEN 0 ELSE remaining

GetCooldownReason(k) == IF k \in DOMAIN reasons THEN reasons[k] ELSE ""

ClearCooldown(k) ==
    /\ cooldowns' = Delete(cooldowns, k)
    /\ reasons' = Delete(reasons, k)
    /\ cdDur' = Delete(cdDur, k)
    /\ cdLastOp' = [NoCooldownOp EXCEPT !.op = "ClearCooldown", !.key = k, !.at = now]
    /\ UNCHANGED <<rd, fpVars, found, rmLastOp, held, calc, sw, refVars, now, rlVars, scVars, repoVars>>

(* CleanupExpired that forgets the reasons map *)
CleanupExpiredLeavesReason ==
    /\ cooldowns' = [k \in DOMAIN cooldowns \ Expired |-> cooldowns[k]]
    /\ reasons' = reasons
    /\ cdDur' = [k \in DOMAIN cdDur \ Expired |-> cdDur[k]]
    /\ cdLastOp' = [NoCooldownOp EXCEPT !.op = "CleanupExpired", !.at = now, !.removed = Expired]

CleanupExpired ==
    /\ cooldowns' = [k \in DOMAIN cooldowns \ Expired |-> cooldowns[k]]
    /\ reasons' = [k \in DOMAIN reasons \ Expired |-> reasons[k]]
    /\ cdDur' = [k \in DOMAIN cdDur \ Expired |-> cdDur[k]]
    /\ cdLastOp' = [NoCooldownOp EXCEPT !.op = "CleanupExpired", !.at = now, !.removed = Expired]

CDSet == \E k \in CDKeys, d \in DurationChoices, reason \in ReasonChoices :
            SetCooldown(k, d, reason)
CDClear == \E k \in CDKeys : ClearCooldown(k)
CDCleanup ==
    /\ CleanupExpired
    /\ UNCHANGED <<rd, fpVars, found, rmLastOp, held, calc, sw, refVars, now, rlVars, scVars, repoVars>>

CDTick ==
    /\ now < MaxCooldownNow
    /\ now' = now + 1
    /\ cdLastOp' = [NoCooldownOp EXCEPT !.op = "Tick", !.at = now]
    /\ UNCHANGED <<rd, cooldowns, reasons, cdDur, fpVars, found, rmLastOp, held, calc, sw, refVars, rlVars,
                   scVars, repoVars>>

-----------------------------------------------------------------------------
(* FingerprintManager: a map from token key to fingerprint.  A call of     *)
(* rng.Intn(n) is a draw r reduced modulo n; a SHA-256 digest is written   *)
(* as the text it was computed from.  fpFirst remembers the first          *)
(* fingerprint ever generated for a key, fpLastOp the last operation.      *)

sdkVersions ==
    <<"1.0.20", "1.0.21", "1.0.22", "1.0.23", "1.0.24", "1.0.25", "1.0.26", "1.0.27">>
osTypes == <<"darwin", "windows", "linux">>
osVersions ==
    [darwin |-> <<"14.0", "14.1", "14.2", "14.3", "14.4", "14.5", "15.0", "15.1">>,
     windows |-> <<"10.0.19041", "10.0.19042", "10.0.19043", "10.0.19044",
                   "10.0.22621", "10.0.22631">>,
     linux |-> <<"5.15.0", "6.1.0", "6.2.0", "6.5.0", "6.6.0", "6.8.0">>]
nodeVersions ==
    <<"18.17.0", "18.18.0", "18.19.0", "18.20.0", "20.9.0", "20.10.0", "20.11.0",
      "20.12.0", "20.13.0", "22.0.0", "22.1.0", "22.2.0", "22.3.0">>
kiroVersions ==
    <<"0.3.0", "0.3.1", "0.4.0", "0.4.1", "0.5.0", "0.5.1", "0.6.0", "0.6.1",
      "0.7.0", "0.7.1", "0.8.0", "0.8.1">>
acceptLanguages ==
    <<"en-US,en;q=0.9", "en-GB,en;q=0.9", "zh-CN,zh;q=0.9,en;q=0.8",
      "zh-TW,zh;q=0.9,en;q=0.8", "ja-JP,ja;q=0.9,en;q=0.8", "ko-KR,ko;q=0.9,en;q=0.8",
      "de-DE,de;q=0.9,en;q=0.8", "fr-FR,fr;q=0.9,en;q=0.8">>
screenResolutions ==
    <<"1920x1080", "2560x1440", "3840x2160", "1366x768", "1440x900", "1680x1050",
      "2560x1600", "3440x1440">>
colorDepths == <<24, 32>>
hardwareConcurrencies == <<4, 6, 8, 10, 12, 16, 20, 24, 32>>
timezoneOffsets == <<-480, -420, -360, -300, -240, 0, 60, 120, 480, 540>>

FPKeys == {"fp1", "fp2"}
NanosPerTick == 2

(* What one generation draws: the rng values and the clock reading within  *)
(* the current tick.                                                       *)
Draws == [os : 0..2, osv : {7}, kiro : {0, 11}, other : {3}, sub : 0..(NanosPerTick - 1)]

randomChoice(choices, r) == choices[(r % Len(choices)) + 1]
randomIntChoice(choices, r) == choices[(r % Len(choices)) + 1]

UnixNano(sub) == now * NanosPerTick + sub

Sha256Hex(data) == "sha256(" \o data \o ")"

generateKiroHash(tokenKey, kiroVersion, osType, sub) ==
    Sha256Hex(tokenKey \o ":" \o kiroVersion \o ":" \o osType \o ":"
              \o ToString(UnixNano(sub)))

generateFingerprint(tokenKey, draw) ==
    LET osType == randomChoice(osTypes, draw.os)
        osVersion == randomChoice(osVersions[osType], draw.osv)
        kiroVersion == randomChoice(kiroVersions, draw.kiro)
    IN  [SDKVersion |-> randomChoice(sdkVersions, draw.other),
         OSType |-> osType,
         OSVersion |-> osVersion,
         NodeVersion |-> randomChoice(nodeVersions, draw.other),
         KiroVersion |-> kiroVersion,
         KiroHash |-> generateKiroHash(tokenKey, kiroVersion, osType, draw.sub),
         AcceptLanguage |-> randomChoice(acceptLanguages, draw.other),
         ScreenResolution |-> randomChoice(screenResolutions, draw.other),
         ColorDepth |-> randomIntChoice(colorDepths, draw.other),
         HardwareConcurrency |-> randomIntChoice(hardwareConcurrencies, draw.other),
         TimezoneOffset |-> randomIntChoice(timezoneOffsets, draw.other)]

NoFingerprints == [k \in {} |-> generateFingerprint("", CHOOSE d \in Draws : TRUE)]

(* The goroutines that call GetFingerprint at the same time, each with its *)
(* position in the call, the lock under which it found or stored the       *)
(* fingerprint, whether it generated one, and what it returned.            *)
Callers == {"g1", "g2", "g3"}
IdleCaller == [pc |-> "idle", key |-> "", lock |-> "", generated |-> FALSE, fp |-> <<>>]

NewFingerprintManager ==
    /\ fingerprints = NoFingerprints
    /\ fpFirst = NoFingerprints
    /\ fpLastOp = [op |-> "NewFingerprintManager", key |-> "", n |-> 0]
    /\ fpCallers = [g \in Callers |-> IdleCaller]

(* RemoveFingerprint that empties the whole map *)
RemoveFingerprintClearing(k) ==
    /\ fingerprints' = NoFingerprints
    /\ fpLastOp' = [op |-> "RemoveFingerprint", key |-> k, n |-> 0]
    /\ UNCHANGED <<fpFirst, fpCallers, rd, cdVars, found, rmLastOp, held, calc, sw, refVars, now, rlVars,
                   scVars, repoVars>>

RemoveFingerprint(k) ==
    /\ fingerprints' = Delete(fingerprints, k)
    /\ fpLastOp' = [op |-> "RemoveFingerprint", key |-> k, n |-> 0]
    /\ UNCHANGED <<fpFirst, fpCallers, rd, cdVars, found, rmLastOp, held, calc, sw, refVars, now, rlVars,
                   scVars, repoVars>>

Count ==
    /\ fpLastOp' = [op |-> "Count", key |-> "", n |-> Cardinality(DOMAIN fingerprints)]
    /\ UNCHANGED <<fingerprints, fpFirst, fpCallers, rd, cdVars, found, rmLastOp, held, calc, sw, refVars, now, rlVars,
                   scVars, repoVars>>

(* GetFingerprint(tokenKey) as a goroutine runs it, one critical section   *)
(* at a time; a goroutine begins a call when it is not inside one.  Lines  *)
(* 386-392: under the read lock, return the fingerprint if the key has     *)
(* one.                                                                    *)
GetFingerprintRLocked(g, k) ==
    /\ fpCallers[g].pc # "Lock"
    /\ fpCallers' = [fpCallers EXCEPT ![g] =
          IF k \in DOMAIN fingerprints
          THEN [pc |-> "returned", key |-> k, lock |-> "RLock", generated |-> FALSE,
                fp |-> <<fingerprints[k]>>]
          ELSE [pc |-> "Lock", key |-> k, lock |-> "", generated |-> FALSE, fp |-> <<>>]]
    /\ UNCHANGED <<fingerprints, fpFirst, fpLastOp, rd, cdVars, found, rmLastOp, held, calc, sw,
                   refVars, now, rlVars, scVars, repoVars>>

(* the write-locked section without its second lookup *)
GetFingerprintLockedNoRecheck(g, draw) ==
    LET k == fpCallers[g].key
        fp == generateFingerprint(k, draw)
    IN  /\ fpCallers[g].pc = "Lock"
        /\ fingerprints' = Put(fingerprints, k, fp)
        /\ fpFirst' = IF k \in DOMAIN fpFirst THEN fpFirst ELSE Put(fpFirst, k, fp)
        /\ fpCallers' = [fpCallers EXCEPT ![g] =
              [pc |-> "returned", key |-> k, lock |-> "Lock", generated |-> TRUE,
               fp |-> <<fp>>]]
        /\ UNCHANGED <<fpLastOp, rd, cdVars, found, rmLastOp, held, calc, sw, refVars, now,
                       rlVars, scVars, repoVars>>

(* Lines 393-403: under the write lock, look again, and generate and store *)
(* a fingerprint only if the key still has none.                           *)
GetFingerprintLocked(g, draw) ==
    LET k == fpCallers[g].key
        fp == generateFingerprint(k, draw)
    IN  /\ fpCallers[g].pc = "Lock"
        /\ IF k \in DOMAIN fingerprints
           THEN /\ UNCHANGED <<fingerprints, fpFirst>>
                /\ fpCallers' = [fpCallers EXCEPT ![g] =
                      [pc |-> "returned", key |-> k, lock |-> "Lock", generated |-> FALSE,
                       fp |-> <<fingerprints[k]>>]]
           ELSE /\ fingerprints' = Put(fingerprints, k, fp)
                /\ fpFirst' = IF k \in DOMAIN fpFirst THEN fpFirst ELSE Put(fpFirst, k, fp)
                /\ fpCallers' = [fpCallers EXCEPT ![g] =
                      [pc |-> "returned", key |-> k, lock |-> "Lock", generated |-> TRUE,
                       fp |-> <<fp>>]]
        /\ UNCHANGED <<fpLastOp, rd, cdVars, found, rmLastOp, held, calc, sw, refVars, now,
                       rlVars, scVars, repoVars>>

(* every goroutine calls once *)
FPCallerEnters ==
    \E g \in Callers, k \in FPKeys : fpCallers[g].pc = "idle" /\ GetFingerprintRLocked(g, k)
FPCallerLocks == \E g \in Callers, draw \in Draws : GetFingerprintLocked(g, draw)

(* goroutines that call again and again, next to removals and counts *)
RepeatingCallers == {"g1", "g2"}
RepeatingDraws == {d \in Draws : d.os = 0 /\ d.kiro = 11}
FPGetEnters == \E g \in RepeatingCallers, k \in FPKeys : GetFingerprintRLocked(g, k)
FPGetLocks ==
    \E g \in RepeatingCallers, draw \in RepeatingDraws : GetFingerprintLocked(g, draw)
FPRemove == \E k \in FPKeys : RemoveFingerprint(k)

-----------------------------------------------------------------------------
(* time.Duration is an int64 count of nanoseconds.  An int64 is kept as    *)
(* its eight bytes, lowest first, in two's complement; products and shifts *)
(* wrap as Go's do.                                                        *)

Int64Bytes == 8

RECURSIVE ByteOf(_, _)
ByteOf(n, i) == IF i = 1 THEN n % 256 ELSE ByteOf(n \div 256, i - 1)

(* the int64 of a natural number below 2^31 *)
Int64(n) == [i \in 1..Int64Bytes |-> ByteOf(n, i)]

RECURSIVE ColumnSum(_, _, _, _)
ColumnSum(a, b, k, i) ==
    IF i > k THEN 0 ELSE a[i] * b[k + 1 - i] + ColumnSum(a, b, k, i + 1)

RECURSIVE MulFrom(_, _, _, _)
MulFrom(a, b, k, carry) ==
    IF k > Int64Bytes THEN <<>>
    ELSE LET t == ColumnSum(a, b, k, 1) + carry
         IN  <<t % 256>> \o MulFrom(a, b, k + 1, t \div 256)

(* a * b on int64: the low 64 bits of the product *)
Mul64(a, b) == MulFrom(a, b, 1, 0)

(* 1 << n on int64, n >= 0: zero once n reaches the width *)
Shl1(n) ==
    [i \in 1..Int64Bytes |-> IF n < 8 * Int64Bytes /\ i = (n \div 8) + 1 THEN 2 ^ (n % 8) ELSE 0]

IsNegative64(a) == a[Int64Bytes] >= 128

RECURSIVE GreaterFrom(_, _, _)
GreaterFrom(a, b, i) ==
    IF i = 0 THEN FALSE
    ELSE IF a[i] # b[i] THEN a[i] > b[i]
    ELSE GreaterFrom(a, b, i - 1)

(* a > b on int64 *)
Greater64(a, b) ==
    IF IsNegative64(a) # IsNegative64(b) THEN IsNegative64(b)
    ELSE GreaterFrom(a, b, Int64Bytes)

Second == Int64(1000000000)
Minute == Mul64(Int64(60), Second)
DefaultShortCooldown == Mul64(Int64(1), Minute)
MaxShortCooldown == Mul64(Int64(5), Minute)

(* CalculateCooldownFor429(retryCount) *)
CalculateCooldownFor429(retryCount) ==
    LET duration == Mul64(DefaultShortCooldown, Shl1(retryCount))
    IN  IF Greater64(duration, MaxShortCooldown) THEN MaxShortCooldown ELSE duration

MaxRetryCount == 70

NoCalc == [called |-> FALSE, retryCount |-> 0, duration |-> Int64(0), prevCount |-> 0]

(* a caller computes the cooldown for its retry count, which it got by     *)
(* counting up or starts anew                                              *)
Calculate429 ==
    /\ \E retryCount \in 0..MaxRetryCount :
         calc' = [called |-> TRUE, retryCount |-> retryCount,
                  duration |-> CalculateCooldownFor429(retryCount),
                  prevCount |-> calc.retryCount]
    /\ UNCHANGED <<rd, cdVars, fpVars, found, rmLastOp, held, sw, refVars, now, rlVars, scVars,
                   repoVars>>

-----------------------------------------------------------------------------
(* The global cooldown manager and its cleanup routine.  ch is the stop    *)
(* channel (nil until the manager is made), tick says that ticker.C holds  *)
(* a tick (the channel buffers one, a tick that finds it full is dropped), *)
(* sweeps counts the sweeps made.  The routine is running when it waits in *)
(* its select and sweeping once it has taken a tick and not yet finished   *)
(* CleanupExpired.  A panic ends the process and with it the routine.      *)

NoSweeper == [ch |-> "nil", routine |-> "none", tick |-> FALSE, sweeps |-> 0]

SweeperFrame ==
    UNCHANGED <<rd, fpVars, found, rmLastOp, held, calc, refVars, rlVars, scVars, repoVars>>

ProcessLive == sw.routine # "dead"

(* GetGlobalCooldownManager(): the first call makes the manager, which is  *)
(* the one the maps are of from then on (a cooldown set before is in a     *)
(* manager of its own and stays behind), makes the channel and starts the  *)
(* routine; a later call returns the manager there is.                     *)
GetGlobalCooldownManager ==
    /\ ProcessLive
    /\ IF sw.ch = "nil"
       THEN /\ cooldowns' = [k \in {} |-> ZeroTime]
            /\ reasons' = [k \in {} |-> ""]
            /\ cdDur' = [k \in {} |-> 0]
            /\ cdLastOp' = NoCooldownOp
            /\ sw' = [sw EXCEPT !.ch = "open", !.routine = "running"]
       ELSE UNCHANGED <<cdVars, sw>>
    /\ UNCHANGED now
    /\ SweeperFrame

(* ShutdownRateLimiters(): closes the channel if there is one; closing a   *)
(* closed channel panics                                                   *)
ShutdownRateLimiters ==
    /\ ProcessLive
    /\ sw' = CASE sw.ch = "nil" -> sw
               [] sw.ch = "open" -> [sw EXCEPT !.ch = "closed"]
               [] sw.ch = "closed" -> [sw EXCEPT !.routine = "dead"]
    /\ UNCHANGED <<cdVars, now>>
    /\ SweeperFrame

(* The interval passes: the ticker of a running routine sends a tick. *)
TickerFires ==
    /\ ProcessLive
    /\ now < MaxCooldownNow
    /\ now' = now + 1
    /\ sw' = IF sw.routine \in {"running", "sweeping"} THEN [sw EXCEPT !.tick = TRUE] ELSE sw
    /\ UNCHANGED cdVars
    /\ SweeperFrame

(* StartCleanupRoutine, case <-stopCh, under a loop that goes on *)
CleanupRoutineIgnoresStop ==
    /\ sw.routine = "running"
    /\ sw.ch = "closed"
    /\ sw' = [sw EXCEPT !.tick = FALSE]
    /\ UNCHANGED <<cdVars, now>>
    /\ SweeperFrame

(* StartCleanupRoutine, case <-ticker.C: the select takes the tick from   *)
(* the channel                                                             *)
CleanupRoutineReceives ==
    /\ sw.routine = "running"
    /\ sw.tick
    /\ sw' = [sw EXCEPT !.tick = FALSE, !.routine = "sweeping"]
    /\ UNCHANGED <<cdVars, now>>
    /\ SweeperFrame

(* StartCleanupRoutine, case <-ticker.C: cm.CleanupExpired(), under the    *)
(* manager's lock, and back to the select                                  *)
CleanupRoutineSweeps ==
    /\ sw.routine = "sweeping"
    /\ CleanupExpired
    /\ sw' = [sw EXCEPT !.routine = "running", !.sweeps = @ + 1]
    /\ UNCHANGED now
    /\ SweeperFrame

(* StartCleanupRoutine, case <-stopCh: return (the deferred ticker.Stop()  *)
(* runs)                                                                   *)
CleanupRoutineStops ==
    /\ sw.routine = "running"
    /\ sw.ch = "closed"
    /\ sw' = [sw EXCEPT !.routine = "returned"]
    /\ UNCHANGED <<cdVars, now>>
    /\ SweeperFrame

SweeperSet ==
    /\ ProcessLive
    /\ \E k \in CDKeys, d \in {1, 3} : SetCooldown(k, d, CooldownReason429)

-----------------------------------------------------------------------------
(* jitter.go.  Delays are int64 nanoseconds; the delays given to the       *)
(* functions here are below 2^31, so a delay that is not negative is kept  *)
(* as a number once the int64 product and comparison are done.  A draw of  *)
(* jitterRand.Float64() is the value u of (f*2 - 1) in hundredths.         *)
(* JitterPercent of jitter.go is 0.30, the 30 hundredths defined above.   *)

Millisecond == 1000000
JitterDraws == {-100, 0, 99}
BaseDelays == {0, 100 * Millisecond, 2000 * Millisecond}
MaxDelays == {1000 * Millisecond}
MaxAttempt == 66

(* the number of an int64 in 0..2^31-1 *)
NatOf(a) == a[1] + 256 * a[2] + 65536 * a[3] + 16777216 * a[4]

(* JitterDelay(baseDelay, jitterPercent) for a delay that is not negative; *)
(* percent is jitterPercent in hundredths                                  *)
JitterDelay(baseDelay, percent, u) ==
    LET jitterPercent == IF percent <= 0 \/ percent > 100 THEN JitterPercent ELSE percent
        jitterRange == (baseDelay \div 100) * jitterPercent
        jitter == (jitterRange \div 100) * u
        result == baseDelay + jitter
    IN  IF result < 0 THEN 0 ELSE result

(* ExponentialBackoffWithJitter(attempt, baseDelay, maxDelay).  A product  *)
(* that wrapped to a negative backoff stays below maxDelay; its jitter is  *)
(* smaller than itself, so JitterDelay finds a negative result and returns *)
(* 0.                                                                      *)
ExponentialBackoffWithJitter(attempt, baseDelay, maxDelay, u) ==
    LET a == IF attempt < 0 THEN 0 ELSE attempt
        product == Mul64(Int64(baseDelay), Shl1(a))
        backoff == IF Greater64(product, Int64(maxDelay)) THEN Int64(maxDelay) ELSE product
    IN  IF IsNegative64(backoff) THEN 0
        ELSE JitterDelay(NatOf(backoff), JitterPercent, u)

(* Duration.Milliseconds() of a delay in nanoseconds: int64 division,     *)
(* which rounds toward zero                                                *)
DurationMilliseconds(d) ==
    IF d >= 0 THEN d \div Millisecond ELSE -((-d) \div Millisecond)

(* rand.Int63n(n) panics for n <= 0 and draws from 0..n-1 otherwise; the   *)
(* draws taken are the least, the middle and the greatest.                 *)
Int63nPanics(n) == n <= 0
Int63nDraws(n) == {0, n \div 2, n - 1}

(* RandomDelay(min, max) with the draw r of Int63n(rangeMs) *)
RandomDelayPanics(min, max) ==
    min < max /\ Int63nPanics(DurationMilliseconds(max) - DurationMilliseconds(min))
RandomDelay(min, max, r) ==
    IF min >= max THEN min
    ELSE min + r * Millisecond

DelayChoices ==
    {-1500000, -400000, 0, 400000, 900000, Millisecond, 1500000, 2 * Millisecond, 2000001,
     3500000, 5 * Millisecond, 10 * Millisecond}

CallRandomDelay ==
    /\ \E min \in DelayChoices, max \in DelayChoices :
         IF RandomDelayPanics(min, max)
         THEN calc' = [called |-> TRUE, min |-> min, max |-> max, panicked |-> TRUE,
                       delay |-> 0]
         ELSE \E r \in Int63nDraws(DurationMilliseconds(max) - DurationMilliseconds(min)) :
                calc' = [called |-> TRUE, min |-> min, max |-> max, panicked |-> FALSE,
                         delay |-> RandomDelay(min, max, r)]
    /\ UNCHANGED <<rd, cdVars, fpVars, found, rmLastOp, held, sw, refVars, now, rlVars, scVars,
                   repoVars>>

CalculateBackoffWithJitter ==
    /\ \E attempt \in -1..MaxAttempt, baseDelay \in BaseDelays, maxDelay \in MaxDelays,
          u \in JitterDraws :
         calc' = [called |-> TRUE, attempt |-> attempt, baseDelay |-> baseDelay,
                  maxDelay |-> maxDelay, u |-> u,
                  delay |-> ExponentialBackoffWithJitter(attempt, baseDelay, maxDelay, u)]
    /\ UNCHANGED <<rd, cdVars, fpVars, found, rmLastOp, held, sw, refVars, now, rlVars, scVars,
                   repoVars>>

-----------------------------------------------------------------------------
(* The record a caller holds after GetMetrics or GetTokenState: a pointer  *)
(* to a copy the call made (ref "copy", the record is in val), or the      *)
(* pointer kept in the map (ref "alias", the record is the map's entry).   *)

NoHeld == [kind |-> "none", key |-> "", ref |-> "copy", val |-> NoMetrics, written |-> FALSE]

(* GetMetrics returning the map's own pointer. *)
MetricsAlias(k) ==
    [kind |-> "metrics", key |-> k, ref |-> "alias", val |-> NoMetrics, written |-> FALSE]

(* copy := *m; return &copy *)
MetricsCopy(k) ==
    [kind |-> "metrics", key |-> k, ref |-> "copy", val |-> scMetrics[k], written |-> FALSE]

(* GetTokenState: a copy of the state *)
TokenStateCopy(k) ==
    [kind |-> "state", key |-> k, ref |-> "copy", val |-> rlStates[k], written |-> FALSE]

(* What the caller reads through the pointer it holds. *)
HeldValue ==
    IF held.ref = "copy" THEN held.val
    ELSE IF held.kind = "metrics" THEN scMetrics[held.key] ELSE rlStates[held.key]

CallerValue == 999

(* m := s.GetMetrics(k), m not nil *)
HoldMetrics(k) ==
    /\ scMetrics[k].exists
    /\ held' = MetricsCopy(k)
    /\ UNCHANGED <<rd, cdVars, fpVars, found, rmLastOp, calc, sw, refVars, now, rlVars, scVars, repoVars>>

(* state := rl.GetTokenState(k), state not nil *)
HoldTokenState(k) ==
    /\ rlStates[k].exists
    /\ held' = TokenStateCopy(k)
    /\ UNCHANGED <<rd, cdVars, fpVars, found, rmLastOp, calc, sw, refVars, now, rlVars, scVars, repoVars>>

(* The caller assigns to a field of the record it holds:                   *)
(* m.TotalRequests = 999, state.FailCount = 999.                           *)
CallerWrites ==
    /\ held.kind # "none"
    /\ ~held.written
    /\ IF held.ref = "copy"
       THEN /\ held' = IF held.kind = "metrics"
                       THEN [held EXCEPT !.val.TotalRequests = CallerValue, !.written = TRUE]
                       ELSE [held EXCEPT !.val.FailCount = CallerValue, !.written = TRUE]
            /\ UNCHANGED <<scMetrics, rlStates>>
       ELSE /\ held' = [held EXCEPT !.written = TRUE]
            /\ IF held.kind = "metrics"
               THEN /\ scMetrics' = [scMetrics EXCEPT ![held.key].TotalRequests = CallerValue]
                    /\ UNCHANGED rlStates
               ELSE /\ rlStates' = [rlStates EXCEPT ![held.key].FailCount = CallerValue]
                    /\ UNCHANGED scMetrics
    /\ UNCHANGED <<rd, cdVars, fpVars, found, rmLastOp, calc, sw, refVars, now, rlMarked, rlLastOp,
                   scHist, scLastSel, repoVars>>

-----------------------------------------------------------------------------
(* The calls of FindOldestUnverified by goroutines other than the          *)
(* refresher's, one record for each goroutine: the base directory it       *)
(* copied, the entries of the base directory as WalkDir listed them, its   *)
(* position in the walk, the credential read and not yet judged, the clock *)
(* reading of each callback that made one, the credentials kept so far     *)
(* and, once it has returned, the result.  The calls may overlap; the      *)
(* specifications below let one goroutine call at a time.                  *)
Scanners == {"f1", "f2"}
NotJudged == -1
NoScan ==
    [pc |-> "none", limit |-> 0, baseDir |-> "", listed |-> {}, i |-> 0, pending |-> <<>>,
     at |-> [q \in Paths |-> NotJudged], kept |-> <<>>, tokens |-> <<>>]

(* what the clock and other goroutines leave of the records: a call goes   *)
(* on, a returned call is forgotten                                        *)
ScanGoesOn ==
    [f \in Scanners |-> IF found[f].pc \in {"entered", "walking"} THEN found[f] ELSE NoScan]

AuxIdle ==
    /\ rd = NoRead
    /\ NewCooldownManager
    /\ NewFingerprintManager
    /\ found = [f \in Scanners |-> NoScan]
    /\ rmLastOp = NoManagerOp
    /\ held = NoHeld
    /\ calc = NoCalc
    /\ sw = NoSweeper

Init ==
    /\ now = TicksPerSecond
    /\ RLInit
    /\ SCInit
    /\ EmptyRepo
    /\ RefIdle
    /\ AuxIdle

SpecRLNext ==
    \/ Tick
    \/ RLFailed
    \/ RLSuccess
    \/ RLSuspend
    \/ RLReset
    \/ RLClear

SpecRL == Init /\ [][SpecRLNext]_vars

SpecScorerNext ==
    \/ SCTick
    \/ SCRecord
    \/ SCQuota
    \/ SCReset
    \/ ResetAllMetrics

SpecScorer == Init /\ [][SpecScorerNext]_vars

(* The scorer under calls of SelectBestToken that other goroutines'        *)
(* records, quota updates and resets and the clock interleave with.        *)
MaxSelectRequests == 2

SelectRecord == \E k \in SCKeys, success \in BOOLEAN :
                    SumRequests(SCKeys) < MaxSelectRequests /\ RecordRequest(k, success, 1000000)

SpecSelectNext ==
    \/ SCTick
    \/ SelectRecord
    \/ SCQuota
    \/ SCReset
    \/ SCSelect
    \/ SelectBestTokenScores

SpecSelect == Init /\ [][SpecSelectNext]_vars

(* The limiter and the scorer with a key that no mutating operation is     *)
(* ever given, next to keys that are failed, suspended, recorded and       *)
(* reset; every read is made on every key.                                 *)
UnseenKey == "fresh"

InitUnseen ==
    /\ now = TicksPerSecond
    /\ rlStates = [k \in RLKeys \cup {UnseenKey} |-> NoTokenState]
    /\ rlMarked = [k \in RLKeys \cup {UnseenKey} |-> FALSE]
    /\ rlLastOp = [op |-> "NewRateLimiter", key |-> "", at |-> ZeroTime,
                  result |-> FALSE]
    /\ scMetrics = [k \in SCKeys \cup {UnseenKey} |-> NoMetrics]
    /\ scHist = [k \in SCKeys \cup {UnseenKey} |-> <<>>]
    /\ scLastSel = NoSelection
    /\ EmptyRepo
    /\ RefIdle
    /\ AuxIdle

UnseenFailed == MarkTokenFailed("tok1")
UnseenSuccess == MarkTokenSuccess("tok1")
UnseenSuspend == \E text \in {TextBanned, TextTimeout} : CheckAndMarkSuspended("tok1", text)
UnseenClear == ClearTokenState("tok1")
UnseenRecord == \E success \in BOOLEAN :
    /\ scMetrics["good"].TotalRequests < MaxRequests
    /\ RecordRequest("good", success, 1000000)
UnseenQuota == \E quota \in QuotaChoices : SetQuotaRemaining("good", quota)
UnseenReset == ResetMetrics("good")
UnseenIsTokenAvailable == \E k \in {"tok1", UnseenKey} : ReadIsTokenAvailable(k)
UnseenGetTokenState == \E k \in {"tok1", UnseenKey} : GetTokenState(k)
UnseenGetMetrics == \E k \in {"good", UnseenKey} : GetMetrics(k)
UnseenCalculateScore == \E k \in {"good", UnseenKey} : ReadCalculateScore(k)

SpecUnseenNext ==
    \/ UnseenFailed
    \/ UnseenSuccess
    \/ UnseenSuspend
    \/ UnseenClear
    \/ UnseenRecord
    \/ UnseenQuota
    \/ UnseenReset
    \/ ResetAllMetrics
    \/ UnseenIsTokenAvailable
    \/ UnseenGetTokenState
    \/ UnseenGetMetrics
    \/ UnseenCalculateScore

SpecUnseen == InitUnseen /\ [][SpecUnseenNext]_vars

(* The cooldown manager under sets, clears, sweeps and the clock.          *)
SpecCooldownNext ==
    \/ CDTick
    \/ CDSet
    \/ CDClear
    \/ CDCleanup

SpecCooldown == Init /\ [][SpecCooldownNext]_vars

(* The global cooldown manager with its cleanup routine.  The routine's    *)
(* select takes a ready case; when the ticker and the stop channel are     *)
(* both ready it takes either, and it does not pass over a case that stays *)
(* ready for ever.                                                         *)
SpecSweeperNext ==
    \/ GetGlobalCooldownManager
    \/ ShutdownRateLimiters
    \/ TickerFires
    \/ CleanupRoutineReceives
    \/ CleanupRoutineSweeps
    \/ CleanupRoutineStops
    \/ SweeperSet

SpecSweeper == Init /\ [][SpecSweeperNext]_vars

SpecSweeperFair ==
    /\ SpecSweeper
    /\ WF_vars(CleanupRoutineReceives)
    /\ WF_vars(CleanupRoutineSweeps)
    /\ WF_vars(CleanupRoutineStops)

(* Callers that keep and modify the records they were given, while the    *)
(* scorer and the rate limiter go on recording.                            *)
CopiesHoldMetrics == \E k \in SCKeys : HoldMetrics(k)
CopiesHoldTokenState == \E k \in RLKeys : HoldTokenState(k)
CopiesRecord == \E k \in SCKeys, success \in BOOLEAN :
                   SumRequests(SCKeys) < MaxRequests /\ RecordRequest(k, success, 1000000)
CopiesFailed == MarkTokenFailed("tok1")

SpecCopiesNext ==
    \/ CopiesHoldMetrics
    \/ CopiesHoldTokenState
    \/ CallerWrites
    \/ CopiesRecord
    \/ SCQuota
    \/ CopiesFailed

SpecCopies == Init /\ [][SpecCopiesNext]_vars

Spec429 == Init /\ [][Calculate429]_vars

SpecJitter == Init /\ [][CalculateBackoffWithJitter]_vars

SpecRandomDelay == Init /\ [][CallRandomDelay]_vars

(* The fingerprint manager under gets, removals and counts of goroutines   *)
(* that run at the same time.                                              *)
SpecFingerprintNext ==
    \/ FPGetEnters
    \/ FPGetLocks
    \/ FPRemove
    \/ Count

SpecFingerprint == Init /\ [][SpecFingerprintNext]_vars

(* The fingerprint manager under callers of GetFingerprint that run at the *)
(* same time, without removals.                                            *)
SpecFingerprintConcNext ==
    \/ FPCallerEnters
    \/ FPCallerLocks

SpecFingerprintConc == Init /\ [][SpecFingerprintConcNext]_vars

(* The scorer fed one key's requests, long enough for a run of failures    *)
(* that exhausts the penalty.                                              *)
MaxStreak == 12

StreakRecord ==
    \E success \in BOOLEAN :
        /\ scMetrics["good"].TotalRequests < MaxStreak
        /\ RecordRequest("good", success, 1000000)

SpecStreakNext ==
    \/ SCTick
    \/ StreakRecord

SpecStreak == Init /\ [][SpecStreakNext]_vars

(* The repository with one stored credential, whole or cut short, and      *)
(* callers that run one after the other.                                   *)
InitRepo ==
    /\ now = TicksPerSecond
    /\ RLInit
    /\ SCInit
    /\ RepoIdle
    /\ RefIdle
    /\ AuxIdle
    /\ \E content \in {Marshal(StoredCredential(10, TicksPerSecond)),
                        Marshal(StoredWithoutExpiry),
                        SubSeq(Marshal(StoredCredential(10, TicksPerSecond)), 1, 3)} :
          OneFile(Join(NameA), content)

SpecRepoNext ==
    \/ Tick
    \/ RepoUpdate
    \/ UReads
    \/ UStamps
    \/ UOpen
    \/ UWrite
    \/ UMove
    \/ UCleanup
    \/ RepoSetBaseDir

SpecRepo == InitRepo /\ [][SpecRepoNext]_vars

(* The repository with one stored credential and two concurrent callers of *)
(* UpdateToken for it.                                                     *)
ConcToken == [w1 |-> TokenFor(NameA, 1, 10, FALSE), w2 |-> TokenFor(NameA, 2, 14, TRUE)]

InitRepoConc ==
    /\ now = TicksPerSecond
    /\ RLInit
    /\ SCInit
    /\ RepoIdle
    /\ RefIdle
    /\ AuxIdle
    /\ OneFile(Join(NameA), Marshal(StoredCredential(10, TicksPerSecond)))

(* each caller calls once *)
UBegin == \E w \in Writers : upd[w].pc = "idle" /\ UpdateTokenBegins(w, ConcToken[w], "ok")
(* the storage is saved once *)
SaveBegins ==
    \E w \in Savers, io \in SaveOutcomes :
        /\ upd[w].pc = "idle"
        /\ SaveTokenToFileOpens(w, Join(NameA),
                                UnmarshalStorage(StoredCredential(10, TicksPerSecond)), io)
SaveEnds == \E w \in Savers : SaveTokenToFileWrites(w)
(* one request is handled *)
ManualLists == \E m \in Handlers : upd[m].pc = "idle" /\ handleManualRefreshLists(m)
ManualReads == \E m \in Handlers : handleManualRefreshReads(m)
ManualMarshals ==
    \E m \in Handlers, tokenData \in TokenDataChoices, io \in IOOutcomes :
        handleManualRefreshMarshals(m, tokenData, io)
ManualOpens == \E m \in Handlers : handleManualRefreshOpensTmp(m)
ManualWrites == \E m \in Handlers : handleManualRefreshWritesTmp(m)
ManualRenames == \E m \in Handlers : handleManualRefreshRenames(m)

(* the clock goes on by a second while the calls are under way *)
SecondPasses ==
    /\ now + TicksPerSecond <= MaxNow
    /\ now' = now + TicksPerSecond
    /\ UNCHANGED <<auxVars, refVars, rlVars, scVars, repoVars>>

SpecRepoConcNext ==
    \/ SecondPasses
    \/ UBegin
    \/ UReads
    \/ UStamps
    \/ UOpen
    \/ UWrite
    \/ UMove
    \/ UCleanup
    \/ SaveBegins
    \/ SaveEnds
    \/ ManualLists
    \/ ManualReads
    \/ ManualMarshals
    \/ ManualOpens
    \/ ManualWrites
    \/ ManualRenames

SpecRepoConc == InitRepoConc /\ [][SpecRepoConcNext]_vars

(* The repository scan over a base directory that holds credential files   *)
(* of every kind: stale, fresh, without expiry, of another type or auth    *)
(* method, without refresh token, cut short, with an unreadable expiry,    *)
(* next to a temporary file, another provider's file and a file with an    *)
(* upper-case extension.                                                   *)
ScanStale == StoredCredential(2 * TicksPerSecond, TicksPerSecond)
ScanFresh ==
    [StoredCredential(4 * TicksPerSecond, 2 * TicksPerSecond) EXCEPT !.auth_method = "builder-id"]

ScanObjects ==
    {ScanStale,
     ScanFresh,
     StoredWithoutExpiry,
     [ScanStale EXCEPT !.type = "codex"],
     [ScanStale EXCEPT !.auth_method = "social"],
     [ScanStale EXCEPT !.refresh_token = ""],
     [ScanFresh EXCEPT !.expires_at = "soon"]}

ScanContents == {Marshal(o) : o \in ScanObjects} \cup {SubSeq(Marshal(ScanStale), 1, 3)}
ScanLimits == {-1, 0, 1, 2}

ScanFiles ==
    \E ca \in ScanContents \cup {<<>>}, cb \in ScanContents \cup {<<>>},
       cf \in {Marshal(ScanStale), <<>>}, cg \in {Marshal(ScanStale), <<>>},
       cs \in {Marshal(ScanStale), <<>>} :
      LET ct == cf IN
      /\ fsData = [i \in Inodes |->
                     CASE i = 1 -> ca
                       [] i = 2 -> cb
                       [] i = 3 -> cf
                       [] i = 4 -> cg
                       [] i = 5 -> ct
                       [] i = 6 -> cs
                       [] OTHER -> <<>>]
      /\ fsDir = [q \in Paths |->
                    CASE q = Join(NameA) /\ ca # <<>> -> 1
                      [] q = Join(NameB) /\ cb # <<>> -> 2
                      [] q = Join(NameF) /\ cf # <<>> -> 3
                      [] q = Join(NameG) /\ cg # <<>> -> 4
                      [] q = TmpPathOf(Join(NameA)) /\ ct # <<>> -> 5
                      [] q = SubDirPath(NameA) /\ cs # <<>> -> 6
                      [] OTHER -> 0]

InitScan ==
    /\ now = TicksPerSecond
    /\ RLInit
    /\ SCInit
    /\ RepoIdle
    /\ RefIdle
    /\ AuxIdle
    /\ ScanFiles

(* os.ReadDir of the base directory, which WalkDir calls before the first  *)
(* callback on a file.                                                     *)
ReadDir(W) == {q \in Paths : q.dir = "" /\ Exists(W, q)}

(* The walk's next entry from position i on whose name passes the tests   *)
(* of lines 59-66 (the callbacks on the others return without touching a   *)
(* file); past the end of the walk when there is none.  The entries of the *)
(* base directory are the listed ones; the subdirectory is listed when the *)
(* walk comes to it, after the base directory's files, and none of its     *)
(* files is created or removed.                                            *)
RECURSIVE NextEntry(_, _, _)
NextEntry(W, listed, i) ==
    IF i > Len(WalkOrder) THEN i
    ELSE IF /\ WalkOrder[i] \in listed \/ (WalkOrder[i].dir # "" /\ Exists(W, WalkOrder[i]))
            /\ HasSuffixJsonLower(Base(WalkOrder[i]))
            /\ HasPrefixKiro(Base(WalkOrder[i]))
         THEN i
         ELSE NextEntry(W, listed, i + 1)

(* FindOldestUnverified(limit), lines 40-47: the copy of baseDir under the *)
(* read lock, and the return of nil without one.                           *)
FindOldestUnverifiedBegins(f, limit) ==
    /\ found[f].pc \notin {"entered", "walking"}
    /\ found' = [found EXCEPT ![f] =
                   IF repoBaseDir = ""
                   THEN [NoScan EXCEPT !.pc = "returned", !.limit = limit]
                   ELSE [NoScan EXCEPT !.pc = "entered", !.limit = limit,
                                       !.baseDir = repoBaseDir]]
    /\ UNCHANGED <<rd, cdVars, fpVars, rmLastOp, held, calc, sw, refVars, now, rlVars, scVars, repoVars>>

(* line 51, filepath.WalkDir(baseDir, ...): the directory is listed *)
WalkDirLists(f) ==
    /\ found[f].pc = "entered"
    /\ found' = [found EXCEPT ![f].pc = "walking", ![f].i = 1, ![f].listed = ReadDir(World)]
    /\ UNCHANGED <<rd, cdVars, fpVars, rmLastOp, held, calc, sw, refVars, now, rlVars, scVars, repoVars>>

(* a callback that hands a read error back to filepath.WalkDir, which ends *)
(* the walk there                                                          *)
WalkReadsAborting(f) ==
    LET j == NextEntry(World, found[f].listed, found[f].i)
        read == readTokenFile(World, WalkOrder[j])
    IN  /\ found[f].pc = "walking"
        /\ found[f].pending = <<>>
        /\ j <= Len(WalkOrder)
        /\ found' = [found EXCEPT ![f] =
              IF read.err THEN [found[f] EXCEPT !.i = Len(WalkOrder) + 1]
              ELSE IF read.token.nil \/ read.token.RefreshToken = ""
              THEN [found[f] EXCEPT !.i = j + 1]
              ELSE IF read.token.ExpiresAt = ZeroTime
              THEN [found[f] EXCEPT !.i = j + 1, !.kept = Append(@, read.token)]
              ELSE [found[f] EXCEPT !.i = j + 1, !.pending = <<read.token>>]]
        /\ UNCHANGED <<rd, cdVars, fpVars, rmLastOp, held, calc, sw, refVars, now, rlVars, scVars,
                       repoVars>>

(* The callback on the walk's next credential file up to its clock         *)
(* reading, lines 68-75: readTokenFile; a file that cannot be read and a   *)
(* credential that is nil or has no refresh token are passed over, one     *)
(* without expiry is kept without a look at the clock.                     *)
WalkReads(f) ==
    LET j == NextEntry(World, found[f].listed, found[f].i)
        read == readTokenFile(World, WalkOrder[j])
    IN  /\ found[f].pc = "walking"
        /\ found[f].pending = <<>>
        /\ j <= Len(WalkOrder)
        /\ found' = [found EXCEPT ![f] =
              IF read.err \/ read.token.nil \/ read.token.RefreshToken = ""
              THEN [found[f] EXCEPT !.i = j + 1]
              ELSE IF read.token.ExpiresAt = ZeroTime
              THEN [found[f] EXCEPT !.i = j + 1, !.kept = Append(@, read.token)]
              ELSE [found[f] EXCEPT !.i = j + 1, !.pending = <<read.token>>]]
        /\ UNCHANGED <<rd, cdVars, fpVars, rmLastOp, held, calc, sw, refVars, now, rlVars, scVars,
                       repoVars>>

(* Lines 75-77: time.Until reads the clock, and the credential read before *)
(* is kept when it expires within the window.                              *)
WalkJudges(f) ==
    LET token == found[f].pending[1]
        path == WalkOrder[found[f].i - 1]
    IN  /\ found[f].pc = "walking"
        /\ found[f].pending # <<>>
        /\ found' = [found EXCEPT
                       ![f].pending = <<>>,
                       ![f].at[path] = now,
                       ![f].kept = IF NeedsRefresh(token, now) THEN Append(@, token) ELSE @]
        /\ UNCHANGED <<rd, cdVars, fpVars, rmLastOp, held, calc, sw, refVars, now, rlVars, scVars,
                       repoVars>>

(* Lines 88-97, after the walk's last callback: sort, cut to the limit,    *)
(* return.                                                                 *)
FindOldestUnverifiedReturns(f) ==
    /\ found[f].pc = "walking"
    /\ found[f].pending = <<>>
    /\ NextEntry(World, found[f].listed, found[f].i) > Len(WalkOrder)
    /\ found' = [found EXCEPT ![f].pc = "returned",
                              ![f].tokens = Truncate(SortByLastVerified(found[f].kept),
                                                     found[f].limit)]
    /\ UNCHANGED <<rd, cdVars, fpVars, rmLastOp, held, calc, sw, refVars, now, rlVars, scVars, repoVars>>

RepoScan == \E limit \in ScanLimits : FindOldestUnverifiedBegins("f1", limit)
ScanLists == \E f \in Scanners : WalkDirLists(f)
ScanReads == \E f \in Scanners : WalkReads(f)
ScanJudges == \E f \in Scanners : WalkJudges(f)
ScanReturns == \E f \in Scanners : FindOldestUnverifiedReturns(f)

ScanTick ==
    /\ now < MaxNow
    /\ now' = now + 1
    /\ found' = ScanGoesOn
    /\ UNCHANGED <<rd, cdVars, fpVars, rmLastOp, held, calc, sw, refVars, rlVars, scVars, repoVars>>

SpecScanNext ==
    \/ ScanTick
    \/ RepoScan
    \/ ScanLists
    \/ ScanReads
    \/ ScanJudges
    \/ ScanReturns

SpecScan == InitScan /\ [][SpecScanNext]_vars

(* The scan and the update together, as the refresher uses them: a base    *)
(* directory with kiro-a.json, kiro-b.json and sub/kiro-a.json, a scan,    *)
(* and an UpdateToken for a credential of the scan's result that carries   *)
(* the tokens and the expiry a refresh returned.                           *)
RefreshedExpiries == {10}
RefreshedFrom(token, e) ==
    [token EXCEPT !.AccessToken = "at1", !.RefreshToken = "rt1", !.ExpiresAt = e]

InitScanUpdate ==
    /\ now = TicksPerSecond
    /\ RLInit
    /\ SCInit
    /\ RepoIdle
    /\ RefIdle
    /\ AuxIdle
    /\ \E ca \in {Marshal(ScanStale), Marshal(StoredWithoutExpiry), <<>>},
          cb \in {Marshal(ScanStale), <<>>},
          cs \in {Marshal(ScanStale), <<>>} :
         /\ fsData = [i \in Inodes |->
                        CASE i = 1 -> ca
                          [] i = 2 -> cb
                          [] i = 6 -> cs
                          [] OTHER -> <<>>]
         /\ fsDir = [q \in Paths |->
                       CASE q = Join(NameA) /\ ca # <<>> -> 1
                         [] q = Join(NameB) /\ cb # <<>> -> 2
                         [] q = SubDirPath(NameA) /\ cs # <<>> -> 6
                         [] OTHER -> 0]

UpdateScanned ==
    \E f \in Scanners :
        /\ found[f].pc = "returned"
        /\ \E i \in 1..Len(found[f].tokens), e \in RefreshedExpiries, io \in IOOutcomes :
              UpdateTokenBegins("w1", RefreshedFrom(found[f].tokens[i], e), io)

(* a scan without limit *)
ScanAll == FindOldestUnverifiedBegins("f1", 0)

SpecScanUpdateNext ==
    \/ ScanAll
    \/ ScanLists
    \/ ScanReads
    \/ ScanJudges
    \/ ScanReturns
    \/ UpdateScanned
    \/ UReads
    \/ UStamps
    \/ UOpen
    \/ UWrite
    \/ UMove
    \/ UCleanup

SpecScanUpdate == InitScanUpdate /\ [][SpecScanUpdateNext]_vars

----------------------------------------------------------------------------
(* Claims about the rate limiter.                                          *)

(* C1: once CheckAndMarkSuspended has returned true for a key, the key is  *)
(* unavailable in every later state, whatever failures, successes, further *)
(* checks or passage of time follow, until ResetSuspension or              *)
(* ClearTokenState is called for it.                                       *)
C1_SuspendedNeverAvailable ==
    \A k \in RLKeys : rlMarked[k] => ~IsTokenAvailable(k)

(* A suspended key whose failures were cleared by a success at a later     *)
(* time: nothing but the suspension keeps it unavailable.                  *)
C1_Witness ==
    \E k \in RLKeys :
        /\ rlMarked[k]
        /\ rlLastOp.op = "MarkTokenSuccess" /\ rlLastOp.key = k
        /\ rlStates[k].CooldownEnd = ZeroTime
        /\ now > 2

(* C2: for a key that is not suspended, the key is unavailable right after *)
(* MarkTokenFailed and at every time before the recorded cooldown end, and *)
(* available from the cooldown end on and right after MarkTokenSuccess.    *)
C2_CooldownWindow ==
    \A k \in RLKeys :
        (rlStates[k].exists /\ ~rlStates[k].IsSuspended) =>
            /\ (rlLastOp.op = "MarkTokenFailed" /\ rlLastOp.key = k /\ rlLastOp.at = now)
                  => ~IsTokenAvailable(k)
            /\ (now < rlStates[k].CooldownEnd) => ~IsTokenAvailable(k)
            /\ (now >= rlStates[k].CooldownEnd) => IsTokenAvailable(k)
            /\ (rlLastOp.op = "MarkTokenSuccess" /\ rlLastOp.key = k)
                  => IsTokenAvailable(k)

(* A failed key whose cooldown end has passed with no further call. *)
C2_Witness ==
    \E k \in RLKeys :
        /\ rlStates[k].exists /\ ~rlStates[k].IsSuspended
        /\ rlStates[k].FailCount > 0
        /\ rlLastOp.op = "MarkTokenFailed" /\ rlLastOp.key = k
        /\ rlLastOp.at < rlStates[k].CooldownEnd
        /\ now >= rlStates[k].CooldownEnd

----------------------------------------------------------------------------
(* Claims about the health scorer.                                         *)

(* Index of the first of the scores that is maximal. *)
FirstMaxIndex(scores) ==
    CHOOSE i \in 1..Len(scores) :
        /\ \A j \in 1..Len(scores) : scores[j] <= scores[i]
        /\ \A j \in 1..(i - 1) : scores[j] < scores[i]

(* C9: SelectBestToken returns the first candidate of maximal score among  *)
(* the scores CalculateScore gave it, one for each candidate in input      *)
(* order; the empty string for no candidate and, without scoring, the      *)
(* candidate itself for one.                                               *)
C9_SelectBestIsFirstArgmax ==
    scLastSel.pc = "returned" =>
        LET tokens == scLastSel.tokens
        IN  CASE Len(tokens) = 0 -> scLastSel.result = "" /\ scLastSel.scores = <<>>
              [] Len(tokens) = 1 -> scLastSel.result = tokens[1] /\ scLastSel.scores = <<>>
              [] OTHER -> /\ Len(scLastSel.scores) = Len(tokens)
                          /\ scLastSel.result = tokens[FirstMaxIndex(scLastSel.scores)]

(* Two different keys without metrics tie at 1.0, and the first one is     *)
(* returned.                                                               *)
C9_Witness ==
    /\ scLastSel.pc = "returned"
    /\ Len(scLastSel.tokens) = 2
    /\ scLastSel.tokens[1] # scLastSel.tokens[2]
    /\ ~scMetrics[scLastSel.tokens[1]].exists
    /\ ~scMetrics[scLastSel.tokens[2]].exists
    /\ scLastSel.scores = <<Unit, Unit>>
    /\ scLastSel.result = scLastSel.tokens[1]

RECURSIVE CountSuccess(_)
CountSuccess(h) ==
    IF h = <<>> THEN 0
    ELSE (IF Head(h).success THEN 1 ELSE 0) + CountSuccess(Tail(h))

RECURSIVE SumMicros(_)
SumMicros(h) == IF h = <<>> THEN 0 ELSE Head(h).latency + SumMicros(Tail(h))

RECURSIVE SumWholeMillis(_)
SumWholeMillis(h) ==
    IF h = <<>> THEN 0 ELSE (Head(h).latency \div 1000) + SumWholeMillis(Tail(h))

RECURSIVE TrailingFailures(_)
TrailingFailures(h) ==
    IF h = <<>> \/ h[Len(h)].success THEN 0
    ELSE 1 + TrailingFailures(SubSeq(h, 1, Len(h) - 1))

CountsMatchHistory(k) ==
    LET h == scHist[k]
        m == scMetrics[k]
    IN  /\ m.exists
        /\ m.TotalRequests = Len(h)
        /\ m.SuccessRate = (CountSuccess(h) * Scale) \div Len(h)
        /\ m.FailCount = TrailingFailures(h)

(* C10 as stated: AvgLatency is the mean of the recorded latencies         *)
(* expressed in milliseconds (a latency of 1500 microseconds counts 1.5).  *)
C10_AsStated ==
    \A k \in SCKeys :
        scHist[k] # <<>> =>
            /\ CountsMatchHistory(k)
            /\ scMetrics[k].AvgLatency
                   = (SumMicros(scHist[k]) * Scale) \div (1000 * Len(scHist[k]))

(* C10 (amended): after any sequence of RecordRequest calls since the last *)
(* reset, TotalRequests is the number of calls, SuccessRate the share of   *)
(* successful calls, FailCount the number of failures since the last       *)
(* success, and AvgLatency the mean of the latencies each truncated to     *)
(* whole milliseconds.                                                     *)
C10_MetricsMatchHistory ==
    \A k \in SCKeys :
        scHist[k] # <<>> =>
            /\ CountsMatchHistory(k)
            /\ scMetrics[k].AvgLatency
                   = (SumWholeMillis(scHist[k]) * Scale) \div Len(scHist[k])

(* A success followed by a failure, one of the latencies with a fraction   *)
(* of a millisecond.                                                       *)
C10_Witness ==
    \E k \in SCKeys :
        /\ Len(scHist[k]) = 2
        /\ scHist[k][1].success /\ ~scHist[k][2].success
        /\ scHist[k][1].latency = 1500
        /\ scHist[k][2].latency = 1000000
        /\ scMetrics[k].FailCount = 1

(* The refresh manager over a directory of five credential files: one that *)
(* no scan can use, four that are stale.                                   *)
RefreshStart == 3 * TicksPerSecond

Unusable ==
    {SubSeq(Marshal(StoredCredential(RefreshStart + 1, TicksPerSecond)), 1, 3),
     Marshal([StoredCredential(RefreshStart + 1, TicksPerSecond) EXCEPT !.auth_method = "social"])}

InitRefresh ==
    /\ now = RefreshStart
    /\ RLInit
    /\ SCInit
    /\ RepoIdle
    /\ RefIdle
    /\ AuxIdle
    /\ fsDir = [q \in Paths |->
                  CASE q = Join(NameA) -> 1
                    [] q = Join(NameB) -> 2
                    [] q = Join(NameC) -> 3
                    [] q = Join(NameD) -> 4
                    [] q = Join(NameE) -> 5
                    [] OTHER -> 0]
    /\ \E bad \in Unusable :
          fsData = [i \in Inodes |->
                      CASE i = 1 -> bad
                        [] i = 2 -> Marshal(StoredCredential(RefreshStart + 1, 2 * TicksPerSecond))
                        [] i = 3 -> Marshal(StoredCredential(RefreshStart + 2, TicksPerSecond))
                        [] i = 4 -> Marshal(StoredWithoutExpiry)
                        [] i = 5 -> Marshal(StoredCredential(RefreshStart + 1, 3 * TicksPerSecond))
                        [] OTHER -> <<>>]

RMInitialize ==
    /\ \E baseDir \in {"", "auths"} : Initialize(baseDir)
    /\ UNCHANGED <<auxVars, now, rlVars, scVars, fsDir, fsData, upd, lastUpd>>
RMStart ==
    /\ Start
    /\ UNCHANGED <<auxVars, now, rlVars, scVars, repoVars>>
BRComplete == \E f \in br.inFlight, outcome \in RefreshOutcomes : Complete(f, outcome)

SpecRefreshNext ==
    \/ RMInitialize
    \/ RMStart
    \/ Stop
    \/ BeginCycle
    \/ Dispatch
    \/ BRComplete

SpecRefresh == InitRefresh /\ [][SpecRefreshNext]_vars

----------------------------------------------------------------------------
(* A process whose base directory is not configured: the repository has   *)
(* an empty baseDir, the manager is fresh, the directory that was meant    *)
(* holds up to two credential files.                                       *)
InitNoDir ==
    /\ now = TicksPerSecond
    /\ RLInit
    /\ SCInit
    /\ repoBaseDir = ""
    /\ upd = [w \in Writers \cup Savers \cup Handlers |-> IdleWriter]
    /\ lastUpd = NoUpdate
    /\ RefIdle
    /\ AuxIdle
    /\ \E ca \in {Marshal(ScanStale), Marshal(ScanFresh), <<>>},
          cb \in {Marshal(ScanStale), Marshal(ScanFresh), <<>>} :
         /\ fsData = [i \in Inodes |-> CASE i = 1 -> ca [] i = 2 -> cb [] OTHER -> <<>>]
         /\ fsDir = [q \in Paths |->
                       CASE q = Join(NameA) /\ ca # <<>> -> 1
                         [] q = Join(NameB) /\ cb # <<>> -> 2
                         [] OTHER -> 0]

NoDirInitialize ==
    /\ \E baseDir \in {"", "auths", "~/auths"} :
         /\ Initialize(baseDir)
         /\ rmLastOp' = ManagerOp("Initialize", baseDir)
    /\ UNCHANGED <<rd, cdVars, fpVars, found, held, calc, sw, now, rlVars, scVars, fsDir, fsData, upd, lastUpd>>
NoDirStart ==
    /\ Start
    /\ rmLastOp' = ManagerOp("Start", "")
    /\ UNCHANGED <<rd, cdVars, fpVars, found, held, calc, sw, now, rlVars, scVars, repoVars>>

SpecNoDirNext ==
    \/ NoDirInitialize
    \/ NoDirStart
    \/ Stop
    \/ ScanAll
    \/ ScanLists
    \/ ScanReads
    \/ ScanJudges
    \/ ScanReturns
    \/ ScanTick

SpecNoDir == InitNoDir /\ [][SpecNoDirNext]_vars

(* The refresher's loop left to run for ever over four stale credentials,  *)
(* one more than a batch holds.  The external refresh call fails for a     *)
(* credential whose stored refresh token the provider has revoked, in      *)
(* every cycle, and succeeds for every other.  The manager was initialized *)
(* and started; nothing stops it, so cycles never overlap and the cycle    *)
(* number stays 1.                                                         *)
RevokedCredential(lastRefresh) ==
    [StoredCredential(2 * TicksPerSecond, lastRefresh) EXCEPT !.refresh_token = "revoked"]
RefreshCallOutcome(id) ==
    IF Field(Snapshot(World, FilePathOf(id)).obj, "refresh_token") = "revoked"
    THEN "refresh_failed" ELSE "ok"

InitLoop ==
    /\ now = 2 * TicksPerSecond
    /\ RLInit
    /\ SCInit
    /\ upd = [w \in Writers \cup Savers \cup Handlers |-> IdleWriter]
    /\ lastUpd = NoUpdate
    /\ repoBaseDir = "auths"
    /\ rm = [started |-> TRUE, refresher |-> TRUE, ctx |-> "live"]
    /\ br = RefresherStarted(NewBackgroundRefresher(BatchSize, Concurrency))
    /\ AuxIdle
    /\ \E td \in {TicksPerSecond, 2 * TicksPerSecond},
          ca \in {StoredCredential(2 * TicksPerSecond, t) : t \in {TicksPerSecond, 2 * TicksPerSecond}}
                 \cup {RevokedCredential(t) : t \in {TicksPerSecond, 2 * TicksPerSecond}},
          cb \in {ScanStale, RevokedCredential(TicksPerSecond)},
          cc \in {ScanStale, RevokedCredential(TicksPerSecond)} :
         /\ fsData = [i \in Inodes |->
                        CASE i = 1 -> Marshal(ca)
                          [] i = 2 -> Marshal(cb)
                          [] i = 3 -> Marshal(cc)
                          [] i = 4 -> Marshal(StoredCredential(2 * TicksPerSecond, td))
                          [] OTHER -> <<>>]
         /\ fsDir = [q \in Paths |->
                       CASE q = Join(NameA) -> 1
                         [] q = Join(NameB) -> 2
                         [] q = Join(NameC) -> 3
                         [] q = Join(NameD) -> 4
                         [] OTHER -> 0]

BeginCycleRecurring ==
    /\ LoopLive
    /\ br.cycle = 0 \/ CycleOver
    /\ br' = [br EXCEPT !.cycle = 1, !.cancelled = FALSE, !.next = 0, !.outcome = {},
                        !.batch = FindOldestUnverified(World, br.batchSize)]
    /\ UNCHANGED <<auxVars, now, rlVars, scVars, repoVars, rm>>

LoopComplete == \E f \in br.inFlight : Complete(f, RefreshCallOutcome(f.id))

SpecLoopNext ==
    \/ BeginCycleRecurring
    \/ Dispatch
    \/ LoopComplete

SpecLoop == InitLoop /\ [][SpecLoopNext]_vars

(* Fair scheduling of the loop: the timer's tick, the hand-over to a free  *)
(* worker and the end of a refresh in flight each happen again and again   *)
(* unless they are impossible again and again.  For the hand-over this is  *)
(* weak fairness of Dispatch.  For the tick and the end of a refresh the   *)
(* same condition is written out in LoopFair, with state predicates that   *)
(* say when the step is possible and changes the refresher.                *)
SpecLoopFair == SpecLoop /\ WF_vars(Dispatch)

BeginCyclePossible ==
    /\ LoopLive
    /\ br.cycle = 0 \/ CycleOver
    /\ br # [br EXCEPT !.cycle = 1, !.cancelled = FALSE, !.next = 0, !.outcome = {},
                       !.batch = FindOldestUnverified(World, br.batchSize)]
CompletePossible == br.inFlight # {}

LoopFair ==
    /\ ([]<>~BeginCyclePossible) \/ ([]<><<BeginCycleRecurring>>_vars)
    /\ ([]<>~CompletePossible) \/ ([]<><<LoopComplete>>_vars)

----------------------------------------------------------------------------
(* Claims about the token repository.                                      *)

WorldAfter == [dir |-> fsDir', data |-> fsData']

(* C3: a reader of a credential file never finds a partially written file: *)
(* the file always holds one complete content, also while two UpdateToken  *)
(* calls for the same credential run concurrently.                         *)
C3_ReaderNeverSeesPartialFile ==
    \A path \in CredPaths :
        Exists(World, path) => IsJSON(ReadFile(World, path))

(* readTokenFile lines 225-229: the expiry a reader parses from a file. *)
ExpiryOf(obj) ==
    IF "expires_at" \in DOMAIN obj /\ IsRFC3339(obj["expires_at"])
    THEN ParseRFC3339(obj["expires_at"])
    ELSE ZeroTime

TokenFields ==
    {"access_token", "refresh_token", "expires_at", "client_id", "client_secret",
     "auth_method", "region", "start_url"}

OptionalWritten(token, obj) ==
    /\ token.ClientID # "" => Field(obj, "client_id") = token.ClientID
    /\ token.ClientSecret # "" => Field(obj, "client_secret") = token.ClientSecret
    /\ token.AuthMethod # "" => Field(obj, "auth_method") = token.AuthMethod
    /\ token.Region # "" => Field(obj, "region") = token.Region
    /\ token.StartURL # "" => Field(obj, "start_url") = token.StartURL

Kept(before, after, fields) ==
    \A k \in DOMAIN before \ fields : k \in DOMAIN after /\ after[k] = before[k]

(* A step in which a call of UpdateToken returns nil; the call and its     *)
(* token are the ones lastUpd' records.                                    *)
UpdateTokenReturnsNil ==
    \E w \in Writers : upd[w].pc = "written" /\ upd'[w].pc = "returned"

(* A step in which UpdateToken returned nil on an existing file. *)
UpdatedExistingFile ==
    /\ UpdateTokenReturnsNil
    /\ Snapshot(World, FilePathOf(lastUpd'.token.ID)).exists

RoundTripAsStated(token, before, after) ==
    /\ after.json
    /\ Field(after.obj, "access_token") = token.AccessToken
    /\ Field(after.obj, "refresh_token") = token.RefreshToken
    /\ ExpiryOf(after.obj) = token.ExpiresAt
    /\ OptionalWritten(token, after.obj)
    /\ Kept(before.obj, after.obj, TokenFields)

(* C4 as stated: re-reading after a successful UpdateToken(t) yields t's   *)
(* tokens, t's expiry and t's non-empty auth fields, and every other field *)
(* of the file is unchanged.                                               *)
C4_AsStated ==
    [][UpdatedExistingFile =>
          RoundTripAsStated(lastUpd'.token,
                            Snapshot(World, FilePathOf(lastUpd'.token.ID)),
                            Snapshot(WorldAfter, FilePathOf(lastUpd'.token.ID)))]_vars

RoundTrip(token, before, after) ==
    /\ after.json
    /\ Field(after.obj, "access_token") = token.AccessToken
    /\ Field(after.obj, "refresh_token") = token.RefreshToken
    /\ IF token.ExpiresAt # ZeroTime
       THEN ExpiryOf(after.obj) = (token.ExpiresAt \div TicksPerSecond) * TicksPerSecond
       ELSE Kept(before.obj, after.obj, DOMAIN before.obj \ {"expires_at"})
            /\ ("expires_at" \in DOMAIN after.obj => "expires_at" \in DOMAIN before.obj)
    /\ OptionalWritten(token, after.obj)
    /\ Field(after.obj, "last_refresh") = FormatRFC3339(lastUpd'.at)
    /\ Kept(before.obj, after.obj, TokenFields \cup {"last_refresh"})

(* C4 (amended): re-reading after a successful UpdateToken(t) on an        *)
(* existing credential file yields t's access and refresh token, t's       *)
(* expiry cut to whole seconds when t has one (the stored expiry stays     *)
(* when t has none), t's non-empty auth fields, last_refresh set to the    *)
(* time of the call, and every other field unchanged.                      *)
C4_RoundTrip ==
    [][UpdatedExistingFile =>
          RoundTrip(lastUpd'.token,
                    Snapshot(World, FilePathOf(lastUpd'.token.ID)),
                    Snapshot(WorldAfter, FilePathOf(lastUpd'.token.ID)))]_vars

(* A successful update with an expiry that has a fraction of a second has  *)
(* been written over a file that held other fields.                        *)
C4_Witness ==
    /\ lastUpd.called /\ ~lastUpd.failed
    /\ lastUpd.token.ExpiresAt = 7
    /\ lastUpd.token.ClientID = ""
    /\ LET snap == Snapshot(World, Join(NameA))
       IN  /\ snap.json
           /\ Field(snap.obj, "access_token") = lastUpd.token.AccessToken
           /\ Field(snap.obj, "client_id") = "cid0"
           /\ Field(snap.obj, "email") = "user@example.com"
           /\ Field(snap.obj, "last_refresh") # FormatRFC3339(TicksPerSecond)

(* C5: no UpdateToken replaces the stored expires_at by an earlier time. *)
C5_ExpiryNeverRegresses ==
    [][\A path \in CredPaths :
          (Snapshot(World, path).json /\ Snapshot(WorldAfter, path).json)
              => ExpiryOf(Snapshot(WorldAfter, path).obj) >= ExpiryOf(Snapshot(World, path).obj)]_vars

----------------------------------------------------------------------------
(* Claims about the background refresher.                                  *)

BatchIDs == {br.batch[i].ID : i \in 1..Len(br.batch)}

(* C6: in every refresh cycle the refreshes in flight at the same time     *)
(* never exceed the configured concurrency, and the batch taken from       *)
(* FindOldestUnverified never exceeds the configured batch size.           *)
C6_BoundedPoolAndBatch ==
    /\ \A c \in 1..MaxCycles : Cardinality(InFlightOf(c)) <= Concurrency
    /\ Len(br.batch) <= BatchSize

(* All workers are busy while a token of a full batch still waits. *)
C6_Witness ==
    /\ Cardinality(InFlightOf(br.cycle)) = Concurrency
    /\ Len(br.batch) = BatchSize
    /\ br.next < Len(br.batch)

CycleRanToItsEnd ==
    /\ br.cycle > 0 /\ ~br.cancelled
    /\ br.next = Len(br.batch) /\ InFlightOf(br.cycle) = {}

RefreshEnds == Cardinality(br'.inFlight) < Cardinality(br.inFlight)

(* C7: a failed refresh call or write-back of one credential ends neither  *)
(* the batch nor the scheduler: the end of a refresh, failed or not,       *)
(* leaves the loop running, the batch and the tokens still to dispatch as  *)
(* they were, and a cycle that ran to its end attempted every credential   *)
(* of its batch.                                                           *)
C7_FailureIsolated ==
    /\ [](CycleRanToItsEnd => {o.id : o \in br.outcome} = BatchIDs)
    /\ [][RefreshEnds =>
            /\ rm' = rm
            /\ br'.loops = br.loops /\ br'.cancelled = br.cancelled
            /\ br'.cycle = br.cycle
            /\ br'.batch = br.batch /\ br'.next = br.next]_vars

(* A following cycle ran to its end with a full batch in which a refresh   *)
(* call failed, a write-back failed and a refresh succeeded.               *)
C7_Witness ==
    /\ br.cycle = 2 /\ CycleRanToItsEnd
    /\ Len(br.batch) = BatchSize
    /\ {o.result : o \in br.outcome} = RefreshOutcomes

(* C8: the manager runs at most one loop, IsRunning is true exactly while  *)
(* that loop runs under a live context, no cycle begins once the context   *)
(* is cancelled, and Stop on a manager that is not started changes         *)
(* nothing.                                                                *)
C8_Lifecycle ==
    /\ [](br.loops <= 1)
    /\ [](IsRunning <=> (br.loops = 1 /\ rm.ctx = "live"))
    /\ [][br'.cycle # br.cycle => (rm.ctx = "live" /\ rm.started)]_vars
    /\ [][(~rm.started /\ Stop) => UNCHANGED vars]_vars

(* The manager was started, stopped in the middle of a cycle and started   *)
(* again; its second loop has begun a cycle.                               *)
C8_Witness ==
    /\ IsRunning
    /\ br.cycle = 2
    /\ InFlightOf(1) # {}

----------------------------------------------------------------------------
(* Claims about the score.                                                 *)

(* 0.40 * successRate + 0.25 * quotaRemaining + 0.20 * latencyTerm +       *)
(* 0.15 * recencyTerm of the requests recorded for the key since its last  *)
(* reset, in units of 1/Unit: the share of successes, the quota last set,  *)
(* exp(-mean latency in ms / 1000) and 1 - exp(-seconds since the last     *)
(* request / 60).                                                          *)
ClaimedSum(k) ==
    LET h == scHist[k]
        m == scMetrics[k]
        successRate == IF h = <<>> THEN Unit ELSE Quot(CountSuccess(h), Len(h))
        quotaRemaining == Quot(m.QuotaRemaining, Scale)
        latencyTerm == IF h = <<>> THEN Unit
                       ELSE ExpNeg(SumWholeMillis(h), 1000 * Len(h))
        recencyTerm == IF h = <<>> THEN Unit
                       ELSE Unit - ExpNeg((now - m.LastUsed) * TickSeconds, 60)
    IN  (2 * successRate) \div 5 + quotaRemaining \div 4 + latencyTerm \div 5
            + (3 * recencyTerm) \div 20

Near(a, b, eps) == a - b <= eps /\ b - a <= eps

(* C11: for a known key the score is the weighted sum times                *)
(* max(0, 1 - 0.1 * FailCount), to the last places of the fixed-point      *)
(* score, FailCount being the failures since the last success: each        *)
(* further failure in a row lowers the multiplier by a tenth, ten or more  *)
(* give exactly 0, and no failure since the last success gives the         *)
(* weighted sum itself.                                                    *)
C11_FailurePenalty ==
    \A k \in SCKeys :
        scMetrics[k].exists =>
            LET n == TrailingFailures(scHist[k])
                sum == ClaimedSum(k)
                score == CalculateScore(k)
            IN  /\ scMetrics[k].FailCount = n
                /\ Near(10 * score, sum * Max(0, 10 - n), 100)
                /\ n >= 10 => score = 0
                /\ n = 0 => Near(score, sum, 10)
                /\ (n > 0 /\ n < 10 /\ sum > 100) => score < sum

(* More than ten failures in a row after a success, the weighted sum       *)
(* still positive.                                                         *)
C11_Witness ==
    /\ scMetrics["good"].exists
    /\ scMetrics["good"].FailCount > 10
    /\ scMetrics["good"].successCount > 0
    /\ ClaimedSum("good") > Unit \div 4
    /\ CalculateScore("good") = 0

----------------
(* Claims about the rate limiter's failure count, backoff and suspension.  *)

RLChanged == <<rlStates, rlLastOp>>' # <<rlStates, rlLastOp>>
FailedStep(k) ==
    RLChanged /\ rlLastOp'.op = "MarkTokenFailed" /\ rlLastOp'.key = k
CheckedStep(k) ==
    RLChanged /\ rlLastOp'.op = "CheckAndMarkSuspended" /\ rlLastOp'.key = k

CappedBackoff(n) == Min(BackoffBase * Pow(BackoffMultiplier, n - 1), BackoffMax)
JitterMargin(n) == (CappedBackoff(n) * JitterPercent) \div 100
WithinJitter(d, n) ==
    /\ 100 * (d - CappedBackoff(n)) <= JitterPercent * CappedBackoff(n)
    /\ 100 * (CappedBackoff(n) - d) <= JitterPercent * CappedBackoff(n)

MaxBackoffCount == MaxFails + 3

(* C13: calculateBackoff(0) is 0; for n >= 1 every value calculateBackoff  *)
(* can take lies within the jitter percentage of                           *)
(* min(base * multiplier^(n-1), max), the un-jittered backoff is that      *)
(* value, non-decreasing in n and at most max; the cooldown a failure      *)
(* records is such a value.                                                *)
C13_BackoffWithinJitter ==
    /\ calculateBackoff(0) = {0}
    /\ \A n \in 1..MaxBackoffCount :
          /\ calculateBackoff(n) # {}
          /\ \A d \in calculateBackoff(n) : WithinJitter(d, n)
          /\ UnjitteredBackoff(n) = CappedBackoff(n)
          /\ UnjitteredBackoff(n) <= BackoffMax
          /\ UnjitteredBackoff(n - 1) <= UnjitteredBackoff(n)
    /\ \A k \in RLKeys :
          (rlLastOp.op = "MarkTokenFailed" /\ rlLastOp.key = k)
              => WithinJitter(rlStates[k].CooldownEnd - rlLastOp.at, rlStates[k].FailCount)

(* A failure at the cap whose jittered backoff lies below the maximum. *)
C13_Witness ==
    \E k \in RLKeys :
        /\ rlLastOp.op = "MarkTokenFailed" /\ rlLastOp.key = k
        /\ UnjitteredBackoff(rlStates[k].FailCount) = BackoffMax
        /\ rlStates[k].CooldownEnd - rlLastOp.at < BackoffMax

(* C14: right after MarkTokenSuccess on a key with state, FailCount is 0   *)
(* and CooldownEnd is the zero time.                                       *)
C14_SuccessClears ==
    \A k \in RLKeys :
        (rlLastOp.op = "MarkTokenSuccess" /\ rlLastOp.key = k /\ rlStates[k].exists)
            => (rlStates[k].FailCount = 0 /\ rlStates[k].CooldownEnd = ZeroTime)

(* A success on a key that had failed, at a later time. *)
C14_Witness ==
    \E k \in RLKeys :
        /\ rlLastOp.op = "MarkTokenSuccess" /\ rlLastOp.key = k
        /\ rlStates[k].exists /\ ~rlStates[k].IsSuspended /\ ~rlMarked[k]
        /\ rlLastOp.at > TicksPerSecond

(* Whether each message of the model contains a phrase, and whether the   *)
(* test expects true or false for it.                                      *)
HoldsPhrase == [text \in ErrorTexts |-> ContainsPhrase(text)]
ExpectedTrue == [text \in ErrorTexts |-> text \in TestedSuspended]
ExpectedFalse == [text \in ErrorTexts |-> text \in TestedNormal]

-----------------------------------------------------------------------------
(* C16: a key that no mutating operation was ever given is available, has  *)
(* no rate-limiter state, scores 1.0 and has no metrics, in every state    *)
(* and as the answer of every read made on it; the reads leave it so.      *)
C16_UnseenDefaults ==
    /\ IsTokenAvailable(UnseenKey)
    /\ ~rlStates[UnseenKey].exists
    /\ CalculateScore(UnseenKey) = Unit
    /\ ~scMetrics[UnseenKey].exists
    /\ rd.key = UnseenKey =>
         /\ rd.op = "IsTokenAvailable" => rd.available
         /\ rd.op = "GetTokenState" => rd.isNil
         /\ rd.op = "CalculateScore" => rd.score = Unit
         /\ rd.op = "GetMetrics" => rd.isNil

(* C16 witness: GetMetrics was just asked about the unseen key while other *)
(* keys carry limiter state and metrics.                                   *)
C16_Witness ==
    /\ rd.op = "GetMetrics"
    /\ rd.key = UnseenKey
    /\ rlStates["tok1"].exists
    /\ scMetrics["good"].exists

-----------------------------------------------------------------------------
(* C17: SetCooldown(key, d, reason) puts the entry's end time at the call  *)
(* time plus d and records the reason, whatever entry the key had, also    *)
(* one that ended later; while the entry stands, before its end time       *)
(* IsInCooldown is true and GetRemainingCooldown is in (0, d], and from    *)
(* the end time on IsInCooldown is false and GetRemainingCooldown is 0.    *)
C17_CooldownWindow ==
    /\ [](\A k \in DOMAIN cooldowns :
            /\ now < cooldowns[k] =>
                 /\ IsInCooldown(k)
                 /\ GetRemainingCooldown(k) > 0
                 /\ GetRemainingCooldown(k) <= cdDur[k]
            /\ now >= cooldowns[k] =>
                 /\ ~IsInCooldown(k)
                 /\ GetRemainingCooldown(k) = 0)
    /\ [][cdLastOp'.op = "SetCooldown" =>
            LET k == cdLastOp'.key
            IN  /\ k \in DOMAIN cooldowns'
                /\ cooldowns'[k] = now + cdLastOp'.d
                /\ k \in DOMAIN reasons'
                /\ reasons'[k] = cdLastOp'.reason]_vars

(* C17 witness: a SetCooldown has replaced an entry that ended later and   *)
(* carried another reason; the key is in cooldown with one tick left.      *)
C17_Witness ==
    /\ cdLastOp.op = "SetCooldown"
    /\ cdLastOp.prev > cooldowns[cdLastOp.key]
    /\ cdLastOp.reason = CooldownReasonSuspended
    /\ IsInCooldown(cdLastOp.key)
    /\ GetRemainingCooldown(cdLastOp.key) = 1
    /\ GetCooldownReason(cdLastOp.key) = CooldownReasonSuspended

(* C18: CleanupExpired removes, from both maps, exactly the entries whose  *)
(* end time lies before the sweep time, and every other entry, the active  *)
(* ones among them, keeps its end time and its reason.                     *)
C18_SweepExact ==
    [][cdLastOp'.op = "CleanupExpired" =>
         /\ DOMAIN cooldowns' = {k \in DOMAIN cooldowns : ~(now > cooldowns[k])}
         /\ DOMAIN reasons' = DOMAIN cooldowns'
         /\ \A k \in DOMAIN cooldowns :
              now < cooldowns[k] => k \in DOMAIN cooldowns'
         /\ \A k \in DOMAIN cooldowns' :
              /\ cooldowns'[k] = cooldowns[k]
              /\ reasons'[k] = reasons[k]]_vars

(* C18 witness: a sweep has removed the expired entry of one key and left  *)
(* the active entry of the other.                                          *)
C18_Witness ==
    /\ cdLastOp.op = "CleanupExpired"
    /\ cdLastOp.removed = {"cd2"}
    /\ "cd2" \notin DOMAIN reasons
    /\ IsInCooldown("cd1")
    /\ GetCooldownReason("cd1") # ""

-----------------------------------------------------------------------------
(* A call of GetFingerprint by g returns in this step. *)
FPReturns(g) == fpCallers'[g].pc = "returned" /\ fpCallers'[g] # fpCallers[g]

(* C19 as stated: once a fingerprint has been generated for a key, every   *)
(* later GetFingerprint(key) returns that first fingerprint, hash          *)
(* included, whatever GetFingerprint, RemoveFingerprint and Count calls    *)
(* came in between.                                                        *)
C19_AsStated ==
    [][\A g \in Callers :
         (FPReturns(g) /\ fpCallers'[g].key \in DOMAIN fpFirst) =>
             fpCallers'[g].fp = <<fpFirst[fpCallers'[g].key]>>]_vars

(* C19: a key's fingerprint stays the stored one, hash included, through   *)
(* every operation but a RemoveFingerprint of that key: GetFingerprint of  *)
(* the key returns it, and GetFingerprint and RemoveFingerprint of other   *)
(* keys and Count leave it alone; a GetFingerprint that finds no           *)
(* fingerprint for its key generates one, stores it and returns it.        *)
C19_StableUntilRemoved ==
    /\ [][\A k \in DOMAIN fingerprints :
            ~(fpLastOp'.op = "RemoveFingerprint" /\ fpLastOp'.key = k) =>
                /\ k \in DOMAIN fingerprints'
                /\ fingerprints'[k] = fingerprints[k]]_vars
    /\ [][\A g \in Callers :
            FPReturns(g) =>
                LET k == fpCallers'[g].key
                IN  /\ k \in DOMAIN fingerprints'
                    /\ fpCallers'[g].fp = <<fingerprints'[k]>>
                    /\ fpCallers'[g].generated = (k \notin DOMAIN fingerprints)
                    /\ k \in DOMAIN fingerprints =>
                           fpCallers'[g].fp = <<fingerprints[k]>>]_vars

(* C19 witness: a call has returned the first fingerprint of one key,      *)
(* found under the write lock after another goroutine stored it, while the *)
(* other key was removed and generated anew.                               *)
C19_Witness ==
    /\ \E g \in Callers :
          /\ fpCallers[g].pc = "returned"
          /\ fpCallers[g].key = "fp1"
          /\ fpCallers[g].lock = "Lock"
          /\ ~fpCallers[g].generated
          /\ "fp1" \in DOMAIN fpFirst
          /\ fpCallers[g].fp = <<fpFirst["fp1"]>>
    /\ "fp1" \in DOMAIN fingerprints
    /\ fingerprints["fp1"] = fpFirst["fp1"]
    /\ "fp2" \in DOMAIN fingerprints
    /\ fingerprints["fp2"] # fpFirst["fp2"]

-----------------------------------------------------------------------------
(* What a credential file declares, and whether the scan's conditions hold *)
(* of it at the time t; suffixOK is the condition on the name's end.       *)
Declared(q) == Unmarshal(ReadFile(World, q))

StaleFile(q, suffixOK, t) ==
    /\ Exists(World, q)
    /\ Base(q).pre = "kiro-"
    /\ suffixOK
    /\ IsJSON(ReadFile(World, q))
    /\ Field(Declared(q), "type") = "kiro"
    /\ Field(Declared(q), "auth_method") \in {"idc", "builder-id"}
    /\ Field(Declared(q), "refresh_token") # ""
    /\ \/ "expires_at" \notin DOMAIN Declared(q)
       \/ ~IsRFC3339(Declared(q)["expires_at"])
       \/ ParseRFC3339(Declared(q)["expires_at"]) = ZeroTime
       \/ ParseRFC3339(Declared(q)["expires_at"]) - t < RefreshWindow

ReturnsExactly(f, files) ==
    /\ Len(found[f].tokens) = Cardinality(files)
    /\ {found[f].tokens[i].ID : i \in 1..Len(found[f].tokens)} = {Base(q) : q \in files}
    /\ \A i \in 1..Len(found[f].tokens) :
         \E q \in files :
            /\ found[f].tokens[i].ID = Base(q)
            /\ found[f].tokens[i].RefreshToken = Field(Declared(q), "refresh_token")
            /\ found[f].tokens[i].AccessToken = Field(Declared(q), "access_token")
            /\ found[f].tokens[i].AuthMethod = Field(Declared(q), "auth_method")

(* C20 as stated: with limit <= 0 the scan returns exactly the credentials *)
(* of the files named kiro-*.json (the ending as written, in lower case)   *)
(* that declare type kiro, auth method idc or builder-id, a refresh token  *)
(* and an expiry unknown or inside the window when the scan looked at the  *)
(* clock for the file; no other file contributes.                          *)
C20_AsStated ==
    \A f \in Scanners :
        (found[f].pc = "returned" /\ found[f].limit <= 0) =>
            ReturnsExactly(f, {q \in Paths :
                              StaleFile(q, Base(q).ext[Len(Base(q).ext)] = ".json", found[f].at[q])})

(* C20: the same with the name's ending compared without regard to letter  *)
(* case: kiro-*.json, kiro-*.JSON and the like.                            *)
C20_ScanExact ==
    \A f \in Scanners :
        (found[f].pc = "returned" /\ found[f].limit <= 0) =>
            ReturnsExactly(f, {q \in Paths :
                              StaleFile(q, LowerExt(Base(q).ext[Len(Base(q).ext)]) = ".json",
                                        found[f].at[q])})

(* C20 witness: a scan with limit 0 has returned two credentials, one of   *)
(* them from the file with the upper-case extension, and has passed over   *)
(* another provider's file, a temporary file and a social-login file.      *)
C20_Witness ==
    \E f \in Scanners :
        /\ found[f].pc = "returned"
        /\ found[f].limit = 0
        /\ Len(found[f].tokens) = 2
        /\ \E i \in 1..2 : found[f].tokens[i].ID = NameG
        /\ Exists(World, Join(NameF))
        /\ Exists(World, TmpPathOf(Join(NameA)))
        /\ \E q \in {Join(NameA), Join(NameB)} :
             Exists(World, q) /\ Field(Declared(q), "auth_method") = "social"

-----------------------------------------------------------------------------
(* The files that were stale when the scan looked at the clock for them,   *)
(* the files that are stale now, and the last-verified time a file         *)
(* declares (ZeroTime when none can be read from it).                      *)
StaleFiles(f) ==
    {q \in Paths :
       StaleFile(q, LowerExt(Base(q).ext[Len(Base(q).ext)]) = ".json", found[f].at[q])}

StaleFilesNow ==
    {q \in Paths : StaleFile(q, LowerExt(Base(q).ext[Len(Base(q).ext)]) = ".json", now)}

LastVerifiedOf(q) ==
    IF "last_refresh" \in DOMAIN Declared(q) /\ IsRFC3339(Declared(q)["last_refresh"])
    THEN ParseRFC3339(Declared(q)["last_refresh"])
    ELSE ZeroTime

RecordOf(q) == readTokenFile(World, q).token

(* C21: the list FindOldestUnverified(limit) returns is in ascending order *)
(* of last-verified time, the never-verified credentials first; it holds   *)
(* stale credentials only, none more often than files hold it; for         *)
(* limit > 0 it holds min(limit, number of stale credentials) of them,     *)
(* those with the oldest last-verified times; for limit <= 0 it holds them *)
(* all.                                                                    *)
C21_OldestFirst ==
    \A f \in Scanners :
        found[f].pc = "returned" =>
            /\ \A i \in 1..Len(found[f].tokens), j \in 1..Len(found[f].tokens) :
                 i < j => found[f].tokens[i].LastVerified <= found[f].tokens[j].LastVerified
            /\ \A i \in 1..Len(found[f].tokens) :
                 \E q \in StaleFiles(f) :
                    /\ found[f].tokens[i] = RecordOf(q)
                    /\ found[f].tokens[i].LastVerified = LastVerifiedOf(q)
                    /\ Cardinality({j \in 1..Len(found[f].tokens) : found[f].tokens[j] = RecordOf(q)})
                         <= Cardinality({r \in StaleFiles(f) : RecordOf(r) = RecordOf(q)})
            /\ Len(found[f].tokens) = IF found[f].limit > 0
                                   THEN Min(found[f].limit, Cardinality(StaleFiles(f)))
                                   ELSE Cardinality(StaleFiles(f))
            /\ \A t \in 0..MaxStamp :
                 Cardinality({i \in 1..Len(found[f].tokens) :
                                found[f].tokens[i].LastVerified <= t * TicksPerSecond})
                   = Min(Len(found[f].tokens),
                         Cardinality({q \in StaleFiles(f) : LastVerifiedOf(q) <= t * TicksPerSecond}))

(* C21 witness: three credentials are stale and a scan with limit 2 has    *)
(* returned two, a never-verified one that the walk meets second before a  *)
(* verified one.                                                           *)
C21_Witness ==
    \E f \in Scanners :
        /\ found[f].pc = "returned"
        /\ found[f].limit = 2
        /\ Cardinality(StaleFiles(f)) = 3
        /\ Len(found[f].tokens) = 2
        /\ found[f].tokens[1].ID = NameB
        /\ found[f].tokens[1].LastVerified = ZeroTime
        /\ found[f].tokens[2].LastVerified > ZeroTime

-----------------------------------------------------------------------------
(* The README's refresh lead of ten minutes, twice the scan's look-ahead   *)
(* window of five.                                                         *)
DocumentedLead == 2 * RefreshWindow

Refreshable(q) ==
    /\ Exists(World, q)
    /\ Base(q).pre = "kiro-"
    /\ LowerExt(Base(q).ext[Len(Base(q).ext)]) = ".json"
    /\ IsJSON(ReadFile(World, q))
    /\ Field(Declared(q), "type") = "kiro"
    /\ Field(Declared(q), "auth_method") \in {"idc", "builder-id"}
    /\ Field(Declared(q), "refresh_token") # ""

(* C22: a refreshable credential whose access token expires in less than   *)
(* ten minutes is among the credentials an unlimited scan returns as stale *)
(* (and so is handed to the next refresh cycle).                           *)
C22_TenMinuteLead ==
    \A f \in Scanners :
        (found[f].pc = "returned" /\ found[f].limit <= 0) =>
            \A q \in Paths :
                (/\ Refreshable(q)
                 /\ "expires_at" \in DOMAIN Declared(q)
                 /\ IsRFC3339(Declared(q)["expires_at"])
                 /\ found[f].at[q] # NotJudged
                 /\ ParseRFC3339(Declared(q)["expires_at"]) - found[f].at[q] < DocumentedLead)
                => \E i \in 1..Len(found[f].tokens) : found[f].tokens[i].ID = Base(q)

-----------------------------------------------------------------------------
(* A file the scan cannot use: it is no JSON object, or declares another   *)
(* type or an auth method that is not a device-flow one.                   *)
BadFile(q) ==
    /\ Exists(World, q)
    /\ \/ ~IsJSON(ReadFile(World, q))
       \/ Field(Declared(q), "type") # "kiro"
       \/ Field(Declared(q), "auth_method") \notin {"idc", "builder-id"}

WorldWithout(q) == [World EXCEPT !.dir[q] = 0]

(* C23: a file that cannot be parsed, or that declares another type or an  *)
(* unsupported auth method, does not end the scan: the scan returns what   *)
(* it would return with that file absent.                                  *)
C23_BadFileSkipped ==
    \A f \in Scanners :
        found[f].pc = "returned" =>
            \A q \in Paths :
                BadFile(q) =>
                    found[f].tokens = Truncate(SortByLastVerified(WalkFrom(WorldWithout(q), 1, found[f].at)),
                                            found[f].limit)

(* C23 witness: the walk met a file that is no JSON object first, and the  *)
(* scan has returned the stale credential of the file after it.            *)
C23_Witness ==
    \E f \in Scanners :
        /\ found[f].pc = "returned"
        /\ Exists(World, Join(NameA))
        /\ ~IsJSON(ReadFile(World, Join(NameA)))
        /\ \E i \in 1..Len(found[f].tokens) : found[f].tokens[i].ID = NameB

-----------------------------------------------------------------------------
(* C24: no two credential files under the base directory, at whatever      *)
(* depth, yield the same ID, so a scan result never holds two credentials  *)
(* with equal ID.                                                          *)
C24_UniqueIDs ==
    \A f \in Scanners :
        found[f].pc = "returned" =>
            \A i \in 1..Len(found[f].tokens), j \in 1..Len(found[f].tokens) :
                i # j => found[f].tokens[i].ID # found[f].tokens[j].ID

-----------------------------------------------------------------------------
(* C25: without a base directory nothing fails and nothing runs:           *)
(* Initialize("") returns nil and creates no refresher, a Start that       *)
(* follows it on a manager without refresher leaves IsRunning false, and   *)
(* FindOldestUnverified on a repository without base directory returns no  *)
(* credentials.                                                            *)
C25_NoBaseDirNoOp ==
    [][/\ (rmLastOp' # rmLastOp /\ rmLastOp'.op = "Initialize" /\ rmLastOp'.baseDir = "")
            => (rmLastOp'.err = "nil" /\ rm'.refresher = rm.refresher /\ br' = br)
       /\ (rmLastOp' # rmLastOp /\ rmLastOp'.op = "Start" /\ ~rm.refresher
             /\ rmLastOp.op = "Initialize" /\ rmLastOp.baseDir = "")
            => ~IsRunning'
       /\ (\E f \in Scanners : found'[f] # found[f] /\ found'[f].pc = "returned" /\ found'[f].baseDir = "")
            => \A f \in Scanners : found'[f] # found[f] => found'[f].tokens = <<>>]_vars

(* Initialize("") and then Start were called on a fresh manager, and a     *)
(* scan was made of a directory that holds a stale credential.             *)
C25_Witness ==
    /\ rmLastOp.op = "Start" /\ rmLastOp.prevOp = "Initialize" /\ rmLastOp.prevDir = ""
    /\ ~rm.refresher /\ ~IsRunning
    /\ repoBaseDir = ""
    /\ \E f \in Scanners : found[f].pc = "returned" /\ found[f].tokens = <<>>
    /\ StaleFilesNow # {}

-----------------------------------------------------------------------------
(* C26: GetMetrics and GetTokenState hand out copies: a caller's write to  *)
(* the record it holds changes no stored metrics or state, hence no later  *)
(* GetMetrics, GetTokenState, CalculateScore or IsTokenAvailable, and a    *)
(* RecordRequest, SetQuotaRemaining or MarkTokenFailed changes no record   *)
(* that a caller already holds.                                            *)
C26_DefensiveCopies ==
    [][/\ (held'.written /\ ~held.written)
            => /\ scMetrics' = scMetrics /\ rlStates' = rlStates
               /\ \A k \in SCKeys :
                     /\ scMetrics'[k].exists = scMetrics[k].exists
                     /\ scMetrics[k].exists
                           => CalculateScoreOf(scMetrics'[k], now') = CalculateScore(k)
               /\ \A k \in RLKeys : IsTokenAvailable(k)' = IsTokenAvailable(k)
       /\ (held' = held /\ (scMetrics' # scMetrics \/ rlStates' # rlStates))
            => HeldValue' = HeldValue]_vars

(* A caller holds a metrics record it has written to, and the scorer has   *)
(* recorded a later request for the same key.                              *)
C26_Witness ==
    /\ held.kind = "metrics" /\ held.written
    /\ held.val.TotalRequests = CallerValue
    /\ scMetrics[held.key].TotalRequests = 2

-----------------------------------------------------------------------------
(* C27: CalculateCooldownFor429(retryCount) is min(1 minute * 2^retryCount,*)
(* 5 minutes) for every retryCount >= 0, that is 1, 2, 4 minutes for 0, 1, *)
(* 2 and 5 minutes from 3 on: never below 1 minute, never above 5 minutes, *)
(* and never below the result for a smaller retry count.                   *)
ExpectedCooldownFor429(retryCount) ==
    IF retryCount >= 3 THEN Mul64(Int64(5), Minute)
    ELSE Mul64(Int64(2 ^ retryCount), Minute)

C27_CappedExponential ==
    calc.called =>
        /\ calc.duration = ExpectedCooldownFor429(calc.retryCount)
        /\ ~Greater64(Minute, calc.duration)
        /\ ~Greater64(calc.duration, Mul64(Int64(5), Minute))
        /\ calc.prevCount <= calc.retryCount
             => ~Greater64(CalculateCooldownFor429(calc.prevCount), calc.duration)

-----------------------------------------------------------------------------
(* C28: while its stop channel is open the cleanup routine takes every     *)
(* tick it is sent and answers a tick it took with a CleanupExpired, and   *)
(* only a tick makes it sweep; once the channel is closed                  *)
(* (ShutdownRateLimiters on the started global manager) the routine        *)
(* eventually is over, and from then on it makes no sweep.                 *)
C28_SweeperRunsUntilStopped ==
    /\ (sw.routine = "running" /\ sw.tick) ~> (sw.routine = "sweeping" \/ sw.ch = "closed")
    /\ (sw.routine = "sweeping") ~> (sw.routine # "sweeping")
    /\ [][(sw'.routine = "sweeping" /\ sw.routine # "sweeping")
            => (sw.tick /\ sw.routine = "running")]_vars
    /\ [][sw'.sweeps # sw.sweeps
            => (sw.routine = "sweeping" /\ sw'.sweeps = sw.sweeps + 1
                /\ cdLastOp'.op = "CleanupExpired"
                /\ DOMAIN cooldowns' = DOMAIN cooldowns \ Expired)]_vars
    /\ [][(sw.routine = "sweeping" /\ sw'.routine = "running") => sw'.sweeps = sw.sweeps + 1]_vars
    /\ (sw.ch = "closed") ~> (sw.routine \in {"returned", "dead"})
    /\ [][sw.routine \in {"returned", "dead"}
            => (sw'.sweeps = sw.sweeps /\ sw'.routine \in {"returned", "dead"})]_vars

(* The routine has swept an expired cooldown away and has returned after   *)
(* the shutdown.                                                           *)
C28_Witness ==
    /\ sw.routine = "returned"
    /\ sw.ch = "closed"
    /\ sw.sweeps >= 1
    /\ cdLastOp.op = "CleanupExpired" /\ cdLastOp.removed # {}

-----------------------------------------------------------------------------
(* C29: rate-limiter state is never created by a success: a key without    *)
(* state gets one only in a MarkTokenFailed step on it or in a             *)
(* CheckAndMarkSuspended step on it that found a suspension phrase, so     *)
(* after MarkTokenSuccess on a key without state GetTokenState is still    *)
(* nil.                                                                    *)
C29_NoStateOnSuccess ==
    [][\A k \in RLKeys :
          (~rlStates[k].exists /\ rlStates'[k].exists)
              => /\ rlLastOp'.key = k
                 /\ \/ rlLastOp'.op = "MarkTokenFailed"
                    \/ rlLastOp'.op = "CheckAndMarkSuspended" /\ rlStates'[k].IsSuspended]_vars

(* MarkTokenSuccess was the last call, on a key that has no state, while   *)
(* the other key has one.                                                  *)
C29_Witness ==
    /\ rlLastOp.op = "MarkTokenSuccess"
    /\ ~rlStates[rlLastOp.key].exists
    /\ \E k \in RLKeys : rlStates[k].exists

(* The steps that reset the failure count, or clear the cooldown end, of a *)
(* state that is there before and after.                                   *)
FailCountReset(k) ==
    rlStates[k].exists /\ rlStates'[k].exists
    /\ rlStates[k].FailCount > 0 /\ rlStates'[k].FailCount = 0
CooldownEndCleared(k) ==
    rlStates[k].exists /\ rlStates'[k].exists
    /\ rlStates[k].CooldownEnd # ZeroTime /\ rlStates'[k].CooldownEnd = ZeroTime

(* C30 as stated: FailCount goes from positive to 0 only in a              *)
(* MarkTokenSuccess step, CooldownEnd is cleared in exactly those steps,   *)
(* and nothing else, the passage of time included, resets either.          *)
C30_AsStated ==
    [][\A k \in RLKeys :
          /\ FailCountReset(k) <=> CooldownEndCleared(k)
          /\ FailCountReset(k)
                => (rlLastOp'.op = "MarkTokenSuccess" /\ rlLastOp'.key = k)]_vars

(* C30, amended: FailCount goes from positive to 0 only in a               *)
(* MarkTokenSuccess or ResetSuspension step on the key, CooldownEnd is     *)
(* cleared in exactly those steps, and nothing else, the passage of time   *)
(* included, resets either.                                                *)
C30_ResetOnlyOnRecovery ==
    [][\A k \in RLKeys :
          /\ FailCountReset(k) <=> CooldownEndCleared(k)
          /\ FailCountReset(k)
                => (rlLastOp'.op \in {"MarkTokenSuccess", "ResetSuspension"}
                    /\ rlLastOp'.key = k)
          /\ (now' # now /\ rlStates[k].exists) => rlStates'[k] = rlStates[k]]_vars

(* A success was recorded for a key whose cooldown had not run out: the    *)
(* state is there with no failures and no cooldown end.                    *)
C30_Witness ==
    /\ rlLastOp.op = "MarkTokenSuccess"
    /\ rlStates[rlLastOp.key].exists
    /\ ~rlStates[rlLastOp.key].IsSuspended
    /\ ~rlMarked[rlLastOp.key]
    /\ rlStates[rlLastOp.key].FailCount = 0
    /\ rlStates[rlLastOp.key].CooldownEnd = ZeroTime
    /\ now > TicksPerSecond

-----------------------------------------------------------------------------
(* C31: a ResetSuspension step on a suspended key leaves its state with    *)
(* IsSuspended false and FailCount 0 and the key available, whatever       *)
(* failures came before the suspension; on a key without state it changes  *)
(* nothing and creates no state.                                           *)
C31_ResetRecovers ==
    [][\A k \in RLKeys :
          (rlLastOp'.op = "ResetSuspension" /\ rlLastOp'.key = k
             /\ (rlLastOp' # rlLastOp \/ rlStates' # rlStates))
            => /\ (rlStates[k].exists /\ rlStates[k].IsSuspended)
                    => /\ rlStates'[k].exists
                       /\ ~rlStates'[k].IsSuspended
                       /\ rlStates'[k].FailCount = 0
                       /\ IsTokenAvailable(k)'
               /\ ~rlStates[k].exists
                    => (rlStates' = rlStates /\ ~rlStates'[k].exists)]_vars

(* ResetSuspension was the last call, at a later time than the start, and *)
(* left a state without suspension and failures whose key is available.    *)
C31_Witness ==
    /\ rlLastOp.op = "ResetSuspension"
    /\ rlStates[rlLastOp.key].exists
    /\ ~rlStates[rlLastOp.key].IsSuspended
    /\ rlStates[rlLastOp.key].FailCount = 0
    /\ IsTokenAvailable(rlLastOp.key)
    /\ now > TicksPerSecond

-----------------------------------------------------------------------------
(* The configuration of TestCalculateBackoff_MaxCap, in ticks: base 1,     *)
(* maximum 10, multiplier 2, jitter percent left at 0.                     *)
MaxCapConfig == [JitterPercent |-> 0, BackoffBase |-> 1, BackoffMax |-> 10,
                 BackoffMultiplier |-> 2]

(* C32: calculateBackoff(n) never exceeds BackoffMax, jitter included: no  *)
(* MarkTokenFailed records a cooldown end later than its call time plus    *)
(* BackoffMax, and the limiter built from a configuration whose            *)
(* JitterPercent is left at 0 gives no backoff above its BackoffMax.       *)
C32_NeverAboveMax ==
    /\ rlLastOp.op = "MarkTokenFailed"
          => rlStates[rlLastOp.key].CooldownEnd - rlLastOp.at <= BackoffMax
    /\ \A n \in 0..(MaxFails + 3) :
          \A d \in calculateBackoffOf(NewRateLimiterWithConfig(MaxCapConfig), n) :
              d <= MaxCapConfig.BackoffMax

(* A failure at the cap recorded the maximum itself as its backoff, for a  *)
(* limiter whose jitter margin at the cap is positive; so it is for the    *)
(* limiter of the test, whose jitter percent is the default.               *)
C32_Witness ==
    /\ rlLastOp.op = "MarkTokenFailed"
    /\ UnjitteredBackoff(rlStates[rlLastOp.key].FailCount) = BackoffMax
    /\ (BackoffMax * JitterPercent) \div 100 > 0
    /\ rlStates[rlLastOp.key].CooldownEnd - rlLastOp.at = BackoffMax
    /\ NewRateLimiterWithConfig(MaxCapConfig).jitterPercent = JitterPercent
    /\ MaxCapConfig.BackoffMax \in calculateBackoffOf(NewRateLimiterWithConfig(MaxCapConfig), MaxFails + 3)

-----------------------------------------------------------------------------
(* C33 as stated: a key with no RecordRequest since its last reset has no  *)
(* metrics record (GetMetrics is nil) and the score 1.0.                   *)
C33_AsStated ==
    \A k \in SCKeys :
        scHist[k] = <<>> => (~scMetrics[k].exists /\ CalculateScore(k) = Unit)

(* C33, amended: a metrics record comes into existence only in the first   *)
(* RecordRequest or SetQuotaRemaining step for its key since the last      *)
(* reset, and a key without record has the score 1.0.                      *)
C33_CreatedByRecordOrQuota ==
    /\ [](\A k \in SCKeys : ~scMetrics[k].exists => CalculateScore(k) = Unit)
    /\ [][\A k \in SCKeys :
             (~scMetrics[k].exists /\ scMetrics'[k].exists)
                => \/ Len(scHist'[k]) = 1 /\ scMetrics'[k].TotalRequests = 1
                   \/ /\ scHist'[k] = <<>>
                      /\ \E quota \in QuotaChoices :
                            scMetrics'[k] = [NewTokenMetrics EXCEPT !.QuotaRemaining = quota]]_vars

(* One key has a record that SetQuotaRemaining made, with no request       *)
(* recorded, the other key has a record of requests.                       *)
C33_Witness ==
    \E k \in SCKeys, other \in SCKeys :
        /\ scMetrics[k].exists /\ scHist[k] = <<>> /\ scMetrics[k].TotalRequests = 0
        /\ scMetrics[other].exists /\ scMetrics[other].TotalRequests > 0

-----------------------------------------------------------------------------
(* C34: ExponentialBackoffWithJitter(attempt, baseDelay, maxDelay) is      *)
(* min(baseDelay * 2^attempt + jitter, maxDelay): whatever the attempt, a  *)
(* negative one counting as 0, the delay is never above maxDelay and never *)
(* negative.                                                               *)
C34_WithinMaxDelay ==
    calc.called => (0 <= calc.delay /\ calc.delay <= calc.maxDelay)

-----------------------------------------------------------------------------
(* C35: after a successful UpdateToken for a credential a scan returned,   *)
(* with an expiry beyond the look-ahead window, the next scan does not     *)
(* return a credential of that ID, wherever under the base directory the   *)
(* credential's file lies.                                                 *)
C35_RefreshRemovesStaleness ==
    (/\ lastUpd.called /\ ~lastUpd.failed
     /\ lastUpd.token.ExpiresAt - now >= RefreshWindow)
        => \A i \in 1..Len(FindOldestUnverified(World, 0)) :
              FindOldestUnverified(World, 0)[i].ID # lastUpd.token.ID

-----------------------------------------------------------------------------
(* C36: callers of GetFingerprint(key) that run at the same time for a key *)
(* without fingerprint, with no removal running: one of them generates and *)
(* stores a fingerprint, no other does, every caller that has returned got *)
(* the stored fingerprint, and the number of stored fingerprints is the    *)
(* number of keys asked for to the end.                                    *)
CallersOf(k) == {g \in Callers : fpCallers[g].key = k}
ReturnedFor(k) == {g \in CallersOf(k) : fpCallers[g].pc = "returned"}
GeneratedFor(k) == {g \in CallersOf(k) : fpCallers[g].generated}

C36_GeneratedOnce ==
    /\ \A k \in FPKeys :
         /\ Cardinality(GeneratedFor(k)) <= 1
         /\ ReturnedFor(k) # {} =>
              /\ Cardinality(GeneratedFor(k)) = 1
              /\ k \in DOMAIN fingerprints
              /\ \A g \in ReturnedFor(k) : fpCallers[g].fp = <<fingerprints[k]>>
    /\ Cardinality(DOMAIN fingerprints) = Cardinality({k \in FPKeys : ReturnedFor(k) # {}})

(* Three callers asked for the same key; all found it missing under the    *)
(* read lock and went on to the write lock, one generated, and all have    *)
(* returned.                                                               *)
C36_Witness ==
    /\ \A g \in Callers :
         /\ fpCallers[g].pc = "returned"
         /\ fpCallers[g].key = "fp1"
         /\ fpCallers[g].lock = "Lock"
    /\ Cardinality(GeneratedFor("fp1")) = 1

-----------------------------------------------------------------------------
(* C37: under fair scheduling of the refresher's loop every stale          *)
(* credential whose refresh call succeeds is refreshed in the end, also    *)
(* when other stale credentials fail in every cycle and there are more     *)
(* stale credentials than a batch holds.                                   *)
StaleAt(q) == NeedsRefresh(RecordOf(q), now)
WouldSucceed(q) == RefreshCallOutcome(Base(q)) = "ok"

C37_NoStarvation ==
    LoopFair => \A q \in CredPaths : (StaleAt(q) /\ WouldSucceed(q)) ~> ~StaleAt(q)

-----------------------------------------------------------------------------
(* C38: ShutdownRateLimiters can be called in any state and any number of  *)
(* times: before the global cooldown manager exists it changes nothing,    *)
(* and no call, a repeated one included, panics.                           *)
C38_ShutdownAlwaysSafe ==
    /\ sw.routine # "dead"
    /\ sw.ch = "nil" => sw.routine = "none"

-----------------------------------------------------------------------------
(* C39: RandomDelay(min, max) never panics, also when max - min is below a *)
(* millisecond; for min < max its result lies between min and max, and for *)
(* min >= max it is min.                                                   *)
C39_RandomDelayInRange ==
    calc.called =>
        /\ ~calc.panicked
        /\ calc.min < calc.max => (calc.min <= calc.delay /\ calc.delay <= calc.max)
        /\ calc.min >= calc.max => calc.delay = calc.min

-----------------------------------------------------------------------------
(* A step of a call of UpdateToken. *)
UpdateTokenSteps == lastUpd' # lastUpd \/ \E w \in Writers : upd'[w] # upd[w]

(* C40: an UpdateToken that returns an error leaves the credential file    *)
(* as it was: no step of a call but the rename that succeeds changes       *)
(* whether a credential file exists or what it holds, and the call that    *)
(* returns after a failed rename leaves no temporary file.                 *)
C40_ErrorLeavesTarget ==
    /\ [][(UpdateTokenSteps /\ ~UpdateTokenReturnsNil) =>
            \A path \in CredPaths :
                /\ Exists(WorldAfter, path) = Exists(World, path)
                /\ Exists(World, path) => ReadFile(WorldAfter, path) = ReadFile(World, path)]_vars
    /\ [][\A w \in Writers :
            (upd[w].pc = "rename_failed" /\ upd'[w].pc = "returned") =>
                /\ lastUpd' = Returned(upd[w].token, "rename failed", upd[w].at)
                /\ ~Exists(WorldAfter, TmpPathOf(FilePathOf(upd[w].token.ID)))]_vars
    /\ [][\A w \in Writers :
            (upd[w].pc = "opened" /\ upd'[w].pc = "returned") =>
                lastUpd' = Returned(upd[w].token, "write temp file failed", upd[w].at)]_vars

====
